---- MODULE Spec2Model ----
(***************************************************************************)
(* Model of the sunrise-lamp controller.                                   *)
(*                                                                         *)
(*   Spec      the component revision: ScheduleManager (schedule cache),   *)
(*             TransitionEngine (interpolation) and LEDDriver (LED sink),  *)
(*             driven by a clock that only moves forward.                  *)
(*   SpecMain  the controller of main.py: the module-level startup block,  *)
(*             the 10-minute scheduler loop and run_scheduled_tasks.       *)
(*   SpecHttp  NetworkManager on its own: single http_get / http_post      *)
(*             calls against every pattern of failing attempts.            *)
(*                                                                         *)
(* Brightness values are Python floats in the source.  They are modelled   *)
(* as exact rationals <<numerator, denominator>> in lowest terms, so that  *)
(* equality of two values is equality of the pairs.  Times are integer     *)
(* seconds, as time.time() returns them on the target.                     *)
(***************************************************************************)
EXTENDS Integers, Sequences, FiniteSets, TLC

\* ------------------------------------------------------------------------
\* Bounds of the model
\* ------------------------------------------------------------------------
\* number of clock advances in one behaviour of Spec
MaxTicks == 2
\* number of fetch_schedule() calls in one behaviour of Spec
MaxFetches == 2

\* ------------------------------------------------------------------------
\* Program constants
\* ------------------------------------------------------------------------
STALE_THRESHOLD == 3600
DEFAULT_REFRESH_HOURS == 6
DEMO_CYCLE_DURATION_S == 15
SecondsPerHour == 3600
SecondsPerDay == 24 * SecondsPerHour
DEFAULT_SCHEDULE_MODE == "dayNight"

\* ------------------------------------------------------------------------
\* Rational arithmetic for brightness values
\* ------------------------------------------------------------------------
Abs(x) == IF x < 0 THEN -x ELSE x

RECURSIVE GCD(_, _)
GCD(a, b) == IF b = 0 THEN a ELSE GCD(b, a % b)

\* the rational n/d (d > 0) in lowest terms
Frac(n, d) ==
    LET g == GCD(Abs(n), d)
    IN  IF n = 0 THEN <<0, 1>> ELSE <<n \div g, d \div g>>

FAdd(x, y) == Frac(x[1] * y[2] + y[1] * x[2], x[2] * y[2])
FSub(x, y) == Frac(x[1] * y[2] - y[1] * x[2], x[2] * y[2])
FMul(x, y) == Frac(x[1] * y[1], x[2] * y[2])
FLe(x, y)  == x[1] * y[2] <= y[1] * x[2]
FMin(x, y) == IF FLe(x, y) THEN x ELSE y
FMax(x, y) == IF FLe(x, y) THEN y ELSE x
FZero == <<0, 1>>
FOne  == <<1, 1>>

\* config.NIGHT_LIGHT_BRIGHTNESS = 0.25, config.NIGHT_LIGHT_COOL = 0.0
NIGHT_LIGHT_BRIGHTNESS == <<1, 4>>
NIGHT_LIGHT_COOL == <<0, 1>>
NightLight == <<NIGHT_LIGHT_BRIGHTNESS, NIGHT_LIGHT_COOL>>

\* float(pct) / 100.0
PctToFloat(pct) == Frac(pct, 100)

\* ------------------------------------------------------------------------
\* State
\* ------------------------------------------------------------------------
VARIABLES
    \* --- component revision (Spec) ---
    now,                \* time.time(): the device clock, integer seconds
    ticks,              \* clock advances so far (bounded by MaxTicks)
    fetches,            \* fetch_schedule() calls so far (bounded by MaxFetches)
    demo_schedule,      \* config.DEMO_SCHEDULE (<< >> when none is configured)
    cached_schedule,    \* ScheduleManager._cached_schedule (<< >> for None)
    mode,               \* ScheduleManager._mode
    last_fetch_time,    \* ScheduleManager._last_fetch_time
    utc_offset,         \* ScheduleManager._utc_offset
    last_retry_delays,  \* NetworkManager._last_retry_delays
    led,                \* LEDDriver (_warm_brightness, _cool_brightness)
    op,                 \* the operation that produced this state
    ret,                \* what it returned: "True", "False", or "None" (no value)
    target,             \* update: the pair get_current_target() returned
    http_result,        \* fetch_schedule: how its http_get ended
    http_body,          \* the JSON body decoded by the last request (NoBody if none)
    printed,            \* what the last ScheduleManager call printed (message kinds)
    \* --- direct calls of NetworkManager.http_get / http_post (SpecHttp) ---
    http_calls,         \* direct http_get() / http_post() calls so far
    http_outcomes,      \* what the successive attempts of the last call met
    http_attempts,      \* attempts the last call made
    http_return,        \* what the last call returned to its caller
    \* --- controller of main.py (SpecMain) ---
    pc,                 \* where the module-level script of main.py is
    wifi_connection,    \* wifi_connection.isconnected() (FALSE while None)
    schedule_data,      \* the global schedule_data (NoData for None)
    NEXT_RUN,           \* the scheduler heartbeat NEXT_RUN
    runs,               \* run_scheduled_tasks() calls and demo cycles so far
    time_synced,        \* an ntptime.settime() has succeeded since boot
    phase_failed,       \* the first startup phase that failed ("none" if none)
    led_src,            \* what last wrote the LEDs: none, night, schedule, demo
    raised,             \* the last run_scheduled_tasks() raised an exception
    trace,              \* I/O events of startup, then of the last handler run
    \* --- NetworkManager association and time synchronisation (SpecNet) ---
    net_call,           \* the NetworkManager call in progress and its locals
    net_calls,          \* public NetworkManager calls started so far
    associated,         \* the radio is associated: WLAN.isconnected()
    joining,            \* a WLAN.connect() request is outstanding in the radio
    wlan_made,          \* NetworkManager._wlan is not None
    join_requests,      \* WLAN.connect() calls so far
    connect_calls,      \* connect_wifi() invocations so far
    nm_time_synced,     \* NetworkManager._time_synced
    rtc_writes,         \* machine.RTC().datetime(...) writes so far
    sync_succeeded,     \* some sync_time() since boot has returned True
    ntp_log,            \* the _ntp_request() calls of the last sync_time(), in order
    \* --- direct calls of LEDDriver (SpecLed) ---
    led_calls,          \* direct LEDDriver calls so far
    led_args,           \* the (warm, cool) the last set_brightness() was given
    led_read            \* what the last get_brightness() returned

\* value of `target` in states that no update() produced
NoTarget == <<<<0, 1>>, <<0, 1>>>>

cacheVars == <<cached_schedule, mode, last_fetch_time, utc_offset>>

httpVars == <<http_calls, http_outcomes, http_attempts, http_return>>

mainVars == <<pc, wifi_connection, schedule_data, NEXT_RUN, runs, time_synced,
              phase_failed, led_src, raised, trace>>

ledVars == <<led_calls, led_args, led_read>>

netVars == <<net_call, net_calls, associated, joining, wlan_made, join_requests,
             connect_calls, nm_time_synced, rtc_writes, sync_succeeded, ntp_log>>

\* ------------------------------------------------------------------------
\* Server responses (inputs)
\* ------------------------------------------------------------------------
\* the "time" field of a response entry
TimeHM(h, m) == [k |-> "hm", h |-> h, m |-> m]
TimeAbsent   == [k |-> "absent", h |-> 0, m |-> 0]
TimeNoColon  == [k |-> "nocolon", h |-> 0, m |-> 0]
TimeNonNum   == [k |-> "nonnum", h |-> 0, m |-> 0]
\* an entry that carries a unixTime number and no "time" key
TimeUnix(t)  == [k |-> "unix", h |-> t, m |-> 0]
\* a brightness field of a response entry
Num(v)       == [k |-> "num", v |-> v]
FieldAbsent  == [k |-> "absent", v |-> 0]
FieldBad     == [k |-> "bad", v |-> 0]

RawEntry(t, w, c, l) == [isdict |-> TRUE, time |-> t, warm |-> w, cool |-> c, label |-> l]
NotADict == [isdict |-> FALSE, time |-> TimeAbsent, warm |-> FieldAbsent,
             cool |-> FieldAbsent, label |-> "notdict"]

EntryDawn    == RawEntry(TimeHM(0, 0), Num(20), Num(0), "dawn")
EntrySunrise == RawEntry(TimeHM(1, 0), Num(100), Num(100), "sunrise")
EntryNoon    == RawEntry(TimeHM(0, 30), Num(60), Num(40), "noon")
EntryNoon2   == RawEntry(TimeHM(0, 30), Num(30), Num(90), "noon2")
EntryOver    == RawEntry(TimeHM(3, 0), Num(101), Num(0), "over")
EntryUnder   == RawEntry(TimeHM(3, 0), Num(0), Num(-1), "under")
EntryNoWarm  == RawEntry(TimeHM(0, 30), FieldAbsent, Num(50), "nowarm")
EntryNoTime  == RawEntry(TimeAbsent, Num(50), Num(50), "notime")
EntryNoColon == RawEntry(TimeNoColon, Num(50), Num(50), "nocolon")
EntryNonNum  == RawEntry(TimeNonNum, Num(20), Num(0), "nonnum")
EntryBadHour == RawEntry(TimeHM(24, 0), Num(20), FieldBad, "badhour")
\* entries of the unified shape: unixTime, warmBrightness, coolBrightness, label
UnifiedDawn    == RawEntry(TimeUnix(1000), Num(20), Num(0), "dawn")
UnifiedSunrise == RawEntry(TimeUnix(2000), Num(75), Num(100), "sunrise")

\* the decoded JSON body of a schedule response
\*   ekind: "unified" (neither key; a brightnessSchedule key holds the list),
\*   "list" (entries or schedule key holds a list), "absent" (neither
\*   key), "malformed" (the key holds a value that is not a list of entries)
\* the serverTime value of a response that has no serverTime key
NoServerTime == -1

Response(m, u, k, es) ==
    [isdict |-> TRUE, mode |-> m, utc |-> u, ekind |-> k, entries |-> es,
     serverTime |-> NoServerTime]

\* a response that also carries serverTime, the server's clock in Unix seconds
ResponseAt(m, u, k, es, st) ==
    [isdict |-> TRUE, mode |-> m, utc |-> u, ekind |-> k, entries |-> es,
     serverTime |-> st]

\* the drift threshold TestCheckClockDrift expects, in seconds
CLOCK_DRIFT_THRESHOLD_S == 300

Responses ==
    { Response("dayNight", 0, "list", <<EntryDawn, EntrySunrise>>),
      Response("scheduled", 0, "list", <<EntrySunrise, EntryNoon, EntryDawn, EntryNoon2>>),
      Response("absent", -5 * SecondsPerHour, "list", <<EntryNoWarm, EntryNoTime, EntryUnder>>),
      Response("scheduled", 0, "list", << >>),
      Response("scheduled", 0, "list", <<EntryOver, EntryNoColon, EntryNonNum, EntryBadHour>>),
      Response("scheduled", 0, "list", <<EntryDawn, NotADict>>),
      Response("dayNight", 0, "unified", <<UnifiedDawn, UnifiedSunrise>>),
      Response("dayNight", 0, "malformed", << >>),
      Response("demo", 0, "absent", << >>),
      Response("demo", 0, "list", <<EntryDawn, EntrySunrise>>),
      ResponseAt("dayNight", 0, "list", <<EntryDawn, EntrySunrise>>, CLOCK_DRIFT_THRESHOLD_S + 1),
      [isdict |-> FALSE, mode |-> "absent", utc |-> 0, ekind |-> "absent", entries |-> << >>,
       serverTime |-> NoServerTime] }

\* outcomes of the successive HTTP attempts of one request
HttpOutcomeSeqs ==
    { <<"ok">>,
      <<"status", "transport", "decode">> }

\* config.DEMO_SCHEDULE: (seconds_offset, warm_pct, cool_pct, label)
DEMO_SCHEDULE ==
    << <<0, 10, 0, "night">>, <<2, 25, 0, "pre_dawn">>, <<4, 60, 20, "dawn">>,
       <<6, 100, 80, "sunrise">>, <<8, 90, 100, "midday">>, <<10, 80, 50, "afternoon">>,
       <<12, 50, 10, "sunset">>, <<14, 20, 0, "dusk">>, <<15, 10, 0, "night_end">> >>

\* ------------------------------------------------------------------------
\* NetworkManager: HTTP with retry
\* ------------------------------------------------------------------------
HTTP_MAX_RETRIES == 3
HTTP_BASE_DELAY_S == 1

RECURSIVE Pow2(_)
Pow2(n) == IF n = 0 THEN 1 ELSE 2 * Pow2(n - 1)

_calculate_backoff_delay(attempt) == HTTP_BASE_DELAY_S * Pow2(attempt)

\* what an http_get / http_post hands back: kind is "dict" (the decoded body),
\* "None", "True", "False", or "raise" (an exception left the call)
HttpRet(kind, body) == [kind |-> kind, body |-> body]
NoBody == [isdict |-> FALSE, mode |-> "absent", utc |-> 0, ekind |-> "absent", entries |-> << >>,
       serverTime |-> NoServerTime]
NoReturn == HttpRet("none", NoBody)

\* one attempt: "ok" (status 200, body decodes), "decode" (status 200, body is
\* not JSON; only GET decodes it), "created" (status 201 or another 2xx that
\* is not 200, body decodes), "status" (a status outside 2xx), "transport"
\* (requests raises).  The loop tests response.status_code == 200.
AttemptSucceeds(method, outcome) ==
    outcome = "ok" \/ (method = "POST" /\ outcome = "decode")

\* variant of HttpLoop: the backoff sleep is made after the last attempt too
RECURSIVE HttpLoop_sleeplast(_, _, _, _, _)
HttpLoop_sleeplast(method, outcomes, body, attempt, delays) ==
    IF attempt >= HTTP_MAX_RETRIES
    THEN [ok |-> FALSE, result |-> body, delays |-> delays, attempts |-> attempt]
    ELSE IF attempt + 1 <= Len(outcomes) /\ AttemptSucceeds(method, outcomes[attempt + 1])
         THEN [ok |-> TRUE, result |-> body, delays |-> delays, attempts |-> attempt + 1]
         ELSE HttpLoop_sleeplast(method, outcomes, body, attempt + 1,
                       Append(delays, _calculate_backoff_delay(attempt)))

\* _http_request_with_retry: attempt = 0, 1, ...; outcomes[attempt + 1] is what
\* that attempt produces.  Returns the result, the delays slept and the number
\* of attempts made.
RECURSIVE HttpLoop(_, _, _, _, _)
HttpLoop(method, outcomes, body, attempt, delays) ==
    IF attempt >= HTTP_MAX_RETRIES
    THEN [ok |-> FALSE, result |-> body, delays |-> delays, attempts |-> attempt]
    ELSE IF attempt + 1 <= Len(outcomes) /\ AttemptSucceeds(method, outcomes[attempt + 1])
         THEN [ok |-> TRUE, result |-> body, delays |-> delays, attempts |-> attempt + 1]
         ELSE HttpLoop(method, outcomes, body, attempt + 1,
                       IF attempt < HTTP_MAX_RETRIES - 1
                       THEN Append(delays, _calculate_backoff_delay(attempt))
                       ELSE delays)

_http_request_with_retry(method, outcomes, body) ==
    HttpLoop(method, outcomes, body, 0, << >>)

\* http_get: the decoded body when it is a dict, None otherwise
\*   how: "exhausted" (every attempt failed), "notdict" (decoded body is not a
\*   dict), "dict" (decoded body returned)
http_get(outcomes, body) ==
    LET r == _http_request_with_retry("GET", outcomes, body)
    IN  [isNone |-> ~(r.ok /\ body.isdict), body |-> body, delays |-> r.delays,
         attempts |-> r.attempts,
         how |-> IF ~r.ok THEN "exhausted" ELSE IF body.isdict THEN "dict" ELSE "notdict"]

\* variant of http_post: exhausted retries surface as an exception
http_post_raises(outcomes) ==
    LET r == _http_request_with_retry("POST", outcomes, NoBody)
    IN  [result |-> IF r.ok THEN "True" ELSE "raise", delays |-> r.delays,
         attempts |-> r.attempts, how |-> IF r.ok THEN "ok" ELSE "exhausted"]

\* http_post: True on status 200, False once the attempts are used up
http_post(outcomes) ==
    LET r == _http_request_with_retry("POST", outcomes, NoBody)
    IN  [result |-> IF r.ok THEN "True" ELSE "False", delays |-> r.delays,
         attempts |-> r.attempts, how |-> IF r.ok THEN "ok" ELSE "exhausted"]

Last(q) == q[Len(q)]

RECURSIVE SumSeq(_)
SumSeq(q) == IF q = << >> THEN 0 ELSE Head(q) + SumSeq(Tail(q))

\* ------------------------------------------------------------------------
\* ScheduleManager
\* ------------------------------------------------------------------------
\* variant of _validate_brightness: any number passes
_validate_brightness_anynum(f) == f.k = "num"

\* _validate_brightness: a number within 0..100
_validate_brightness(f) == f.k = "num" /\ 0 <= f.v /\ f.v <= 100

\* entry.get("warm", entry.get("warmBrightness", 0)): a missing field reads as 0
GetBrightness(f) == IF f.k = "absent" THEN Num(0) ELSE f

\* time.mktime((year, month, mday, h, m, 0, 0, 0)) for the day of t
DayStart(t) == (t \div SecondsPerDay) * SecondsPerDay
MkTime(t, h, m) == DayStart(t) + h * SecondsPerHour + m * 60

\* one iteration of the loop of _compute_timestamps: TRUE iff the entry is kept
EntryKept(e) ==
    /\ e.time.k = "hm"
    /\ 0 <= e.time.h /\ e.time.h <= 23 /\ 0 <= e.time.m /\ e.time.m <= 59
    /\ _validate_brightness(GetBrightness(e.warm))
    /\ _validate_brightness(GetBrightness(e.cool))

ConvertEntry(e, offset, t) ==
    [unix_time |-> MkTime(t, e.time.h, e.time.m) - offset,
     warm |-> PctToFloat(GetBrightness(e.warm).v),
     cool |-> PctToFloat(GetBrightness(e.cool).v),
     label |-> e.label]

\* list.sort(key=unix_time): stable insertion of e into the sorted sequence q
RECURSIVE InsertSorted(_, _)
InsertSorted(q, e) ==
    IF q = << >> THEN <<e>>
    ELSE IF Head(q).unix_time <= e.unix_time
         THEN <<Head(q)>> \o InsertSorted(Tail(q), e)
         ELSE <<e>> \o q

RECURSIVE SortByTime(_)
SortByTime(q) ==
    IF q = << >> THEN << >>
    ELSE InsertSorted(SortByTime(SubSeq(q, 1, Len(q) - 1)), q[Len(q)])

RECURSIVE ConvertAll(_, _, _)
ConvertAll(entries, offset, t) ==
    IF entries = << >> THEN << >>
    ELSE (IF EntryKept(Head(entries))
          THEN <<ConvertEntry(Head(entries), offset, t)>> ELSE << >>)
         \o ConvertAll(Tail(entries), offset, t)

\* _compute_timestamps raises (AttributeError, not caught inside) when an
\* element of the list is not a dict
ComputeRaises(entries) == \E i \in 1..Len(entries) : ~entries[i].isdict

\* variant of _compute_timestamps: the result is left in response order
_compute_timestamps_unsorted(entries, offset, t) == ConvertAll(entries, offset, t)

_compute_timestamps(entries, offset, t) == SortByTime(ConvertAll(entries, offset, t))

\* variant of DemoEntries: the cycle is anchored to the start of the day, not
\* to the time of generation
DemoEntries_day(waypoints, cycle_start) ==
    [i \in 1..Len(waypoints) |->
        [unix_time |-> DayStart(cycle_start) + waypoints[i][1],
         warm |-> PctToFloat(waypoints[i][2]),
         cool |-> PctToFloat(waypoints[i][3]),
         label |-> waypoints[i][4]]]

\* the entries _setup_demo_schedule builds from the configured waypoints
RECURSIVE DemoEntries(_, _)
DemoEntries(waypoints, cycle_start) ==
    IF waypoints = << >> THEN << >>
    ELSE <<[unix_time |-> cycle_start + Head(waypoints)[1],
            warm |-> PctToFloat(Head(waypoints)[2]),
            cool |-> PctToFloat(Head(waypoints)[3]),
            label |-> Head(waypoints)[4]]>>
         \o DemoEntries(Tail(waypoints), cycle_start)

\* fetch_schedule() after http_get returned the dict `response` at time t:
\* the new (cached_schedule, mode, last_fetch_time, utc_offset) and the result
FetchParse(response, t) ==
    LET newMode == IF response.mode = "absent" THEN DEFAULT_SCHEDULE_MODE ELSE response.mode
        keep(m, u, r) == [cached_schedule |-> cached_schedule, mode |-> m,
                          last_fetch_time |-> last_fetch_time, utc_offset |-> u, ret |-> r]
        True == "True"
        False == "False"
        computed == _compute_timestamps(response.entries, response.utc, t)
    IN  IF newMode = "demo"
        THEN \* _setup_demo_schedule
             IF demo_schedule = << >>
             THEN keep(newMode, utc_offset, False)
             ELSE [cached_schedule |-> DemoEntries(demo_schedule, t), mode |-> newMode,
                   last_fetch_time |-> t, utc_offset |-> 0, ret |-> True]
        ELSE IF response.ekind \in {"absent", "unified"}
                \/ (response.ekind = "list" /\ response.entries = << >>)
             THEN keep(newMode, response.utc, False)
             ELSE IF response.ekind = "malformed" \/ ComputeRaises(response.entries)
                  THEN keep(newMode, response.utc, False)
                  ELSE IF computed = << >>
                       THEN keep(newMode, response.utc, False)
                       ELSE [cached_schedule |-> computed, mode |-> newMode,
                             last_fetch_time |-> t, utc_offset |-> response.utc, ret |-> True]

\* variant of fetch_schedule: a failed request still stamps the fetch time
fetch_schedule_stamps(r, t) ==
    IF r.isNone
    THEN [cached_schedule |-> cached_schedule, mode |-> mode,
          last_fetch_time |-> t, utc_offset |-> utc_offset, ret |-> "False"]
    ELSE FetchParse(r.body, t)

\* fetch_schedule() once http_get has returned r at time t
fetch_schedule(r, t) ==
    IF r.isNone
    THEN [cached_schedule |-> cached_schedule, mode |-> mode,
          last_fetch_time |-> last_fetch_time, utc_offset |-> utc_offset, ret |-> "False"]
    ELSE FetchParse(r.body, t)

\* what fetch_schedule() and _setup_demo_schedule() print on the way: one
\* message per call (the per-entry messages of _compute_timestamps are not
\* recorded); no message is ever about serverTime, which is not read
fetch_prints(r, t) ==
    IF r.isNone THEN {"Failed to fetch schedule from server"}
    ELSE LET response == r.body
             newMode == IF response.mode = "absent" THEN DEFAULT_SCHEDULE_MODE
                        ELSE response.mode
         IN  IF newMode = "demo"
             THEN IF demo_schedule = << >> THEN {"No demo schedule configured"}
                  ELSE {"Demo schedule set up"}
             ELSE IF response.ekind \in {"absent", "unified"}
                     \/ (response.ekind = "list" /\ response.entries = << >>)
                  THEN {"Warning: Empty schedule received"}
                  ELSE IF response.ekind = "malformed" \/ ComputeRaises(response.entries)
                       THEN {"Error parsing schedule response"}
                       ELSE IF _compute_timestamps(response.entries, response.utc, t) = << >>
                            THEN {"No valid entries after processing"}
                            ELSE {"Schedule fetched"}

\* the bodies a request with these outcomes can deliver: none at all unless
\* one of its attempts gets a status 200
BodiesFor(outcomes) ==
    IF \E i \in 1..Len(outcomes) : i <= HTTP_MAX_RETRIES /\ outcomes[i] = "ok"
    THEN Responses ELSE {NoBody}

\* fetch_schedule(): one http_get (with its retries and sleeps), then the parse
FetchSchedule ==
    /\ fetches < MaxFetches
    /\ \E outcomes \in HttpOutcomeSeqs : \E body \in BodiesFor(outcomes) :
         LET r == http_get(outcomes, body)
             t == now + SumSeq(r.delays)
             p == fetch_schedule(r, t)
         IN  /\ now' = t
             /\ last_retry_delays' = r.delays
             /\ http_result' = r.how
             /\ http_body' = IF r.how = "exhausted" THEN NoBody ELSE body
             /\ cached_schedule' = p.cached_schedule
             /\ mode' = p.mode
             /\ last_fetch_time' = p.last_fetch_time
             /\ utc_offset' = p.utc_offset
             /\ ret' = p.ret
             /\ printed' = fetch_prints(r, t)
    /\ fetches' = fetches + 1
    /\ op' = "fetch_schedule"
    /\ target' = NoTarget
    /\ UNCHANGED <<ticks, demo_schedule, led, httpVars>>
    /\ UNCHANGED <<mainVars, netVars, ledVars>>

\* variant of needs_refresh: the refresh interval triggers when just reached
needs_refresh_ge ==
    \/ cached_schedule = << >>
    \/ now > cached_schedule[Len(cached_schedule)].unix_time + STALE_THRESHOLD
    \/ now - last_fetch_time >= DEFAULT_REFRESH_HOURS * SecondsPerHour

\* needs_refresh()
needs_refresh ==
    \/ cached_schedule = << >>
    \/ now > cached_schedule[Len(cached_schedule)].unix_time + STALE_THRESHOLD
    \/ now - last_fetch_time > DEFAULT_REFRESH_HOURS * SecondsPerHour

get_entries == cached_schedule
is_demo_mode == mode = "demo"

\* ------------------------------------------------------------------------
\* TransitionEngine
\* ------------------------------------------------------------------------
\* max(0.0, min(1.0, x))
Clamp01(x) == FMax(FZero, FMin(FOne, x))

\* prev + (next - prev) * progress
Lerp(prev, next, progress) == FAdd(prev, FMul(FSub(next, prev), progress))

\* variant of FirstAfter: compares with >= instead of >
RECURSIVE FirstAfter_ge(_, _, _)
FirstAfter_ge(entries, t, i) ==
    IF i > Len(entries) THEN 0
    ELSE IF entries[i].unix_time >= t THEN i
         ELSE FirstAfter_ge(entries, t, i + 1)

\* the for loop of get_current_target: index of the first entry whose
\* unix_time is greater than t, 0 when the loop runs to its else branch
RECURSIVE FirstAfter(_, _, _)
FirstAfter(entries, t, i) ==
    IF i > Len(entries) THEN 0
    ELSE IF entries[i].unix_time > t THEN i
         ELSE FirstAfter(entries, t, i + 1)

\* variant of Interpolate: progress by integer (floor) division
Interpolate_floordiv(prev_entry, next_entry, elapsed, duration) ==
    IF duration <= 0
    THEN <<next_entry.warm, next_entry.cool>>
    ELSE LET progress == Clamp01(Frac(elapsed \div duration, 1))
         IN  <<Lerp(prev_entry.warm, next_entry.warm, progress),
               Lerp(prev_entry.cool, next_entry.cool, progress)>>

\* variant of Interpolate: progress counts the time remaining, not the time
\* elapsed
Interpolate_remaining(prev_entry, next_entry, elapsed, duration) ==
    IF duration <= 0
    THEN <<next_entry.warm, next_entry.cool>>
    ELSE LET progress == Clamp01(Frac(duration - elapsed, duration))
         IN  <<Lerp(prev_entry.warm, next_entry.warm, progress),
               Lerp(prev_entry.cool, next_entry.cool, progress)>>

\* the interpolation step shared by both branches: elapsed / duration, clamped
Interpolate(prev_entry, next_entry, elapsed, duration) ==
    IF duration <= 0
    THEN <<next_entry.warm, next_entry.cool>>
    ELSE LET progress == Clamp01(Frac(elapsed, duration))
         IN  <<Lerp(prev_entry.warm, next_entry.warm, progress),
               Lerp(prev_entry.cool, next_entry.cool, progress)>>

\* the for loop of _get_demo_target over the entries' offsets
RECURSIVE FirstOffsetAfter(_, _, _, _)
FirstOffsetAfter(entries, cycle_start, cycle_time, i) ==
    IF i > Len(entries) THEN 0
    ELSE IF entries[i].unix_time - cycle_start > cycle_time THEN i
         ELSE FirstOffsetAfter(entries, cycle_start, cycle_time, i + 1)

get_demo_cycle_duration == DEMO_CYCLE_DURATION_S

\* variant of _get_demo_target: the elapsed time is not reduced modulo the
\* cycle duration
_get_demo_target_nomod(entries, t) ==
    LET cycle_duration == get_demo_cycle_duration
        cycle_start == entries[1].unix_time
        cycle_time == t - cycle_start
        i == FirstOffsetAfter(entries, cycle_start, cycle_time, 1)
        last == entries[Len(entries)]
        prev_entry == IF i = 0 THEN last ELSE IF i > 1 THEN entries[i - 1] ELSE last
        next_entry == IF i = 0 THEN entries[1] ELSE entries[i]
        prev_offset == prev_entry.unix_time - cycle_start
        next_offset0 == next_entry.unix_time - cycle_start
        next_offset == IF next_offset0 <= prev_offset
                       THEN next_offset0 + cycle_duration ELSE next_offset0
        cycle_time1 == IF cycle_time < prev_offset
                       THEN cycle_time + cycle_duration ELSE cycle_time
    IN  Interpolate(prev_entry, next_entry, cycle_time1 - prev_offset,
                    next_offset - prev_offset)

\* variant of _get_demo_target: the first entry's offset is not raised by the
\* cycle duration when the pair wraps from the last entry to the first
_get_demo_target_nowrap(entries, t) ==
    LET cycle_duration == get_demo_cycle_duration
        cycle_start == entries[1].unix_time
        cycle_time == (t - cycle_start) % cycle_duration
        i == FirstOffsetAfter(entries, cycle_start, cycle_time, 1)
        last == entries[Len(entries)]
        prev_entry == IF i = 0 THEN last ELSE IF i > 1 THEN entries[i - 1] ELSE last
        next_entry == IF i = 0 THEN entries[1] ELSE entries[i]
        prev_offset == prev_entry.unix_time - cycle_start
        next_offset == next_entry.unix_time - cycle_start
    IN  Interpolate(prev_entry, next_entry, cycle_time - prev_offset,
                    next_offset - prev_offset)

_get_demo_target(entries, t) ==
    LET cycle_duration == get_demo_cycle_duration
        cycle_start == entries[1].unix_time
        cycle_time == (t - cycle_start) % cycle_duration
        i == FirstOffsetAfter(entries, cycle_start, cycle_time, 1)
        last == entries[Len(entries)]
        prev_entry == IF i = 0 THEN last ELSE IF i > 1 THEN entries[i - 1] ELSE last
        next_entry == IF i = 0 THEN entries[1] ELSE entries[i]
        prev_offset == prev_entry.unix_time - cycle_start
        next_offset0 == next_entry.unix_time - cycle_start
        next_offset == IF next_offset0 <= prev_offset
                       THEN next_offset0 + cycle_duration ELSE next_offset0
        cycle_time1 == IF cycle_time < prev_offset
                       THEN cycle_time + cycle_duration ELSE cycle_time
    IN  Interpolate(prev_entry, next_entry, cycle_time1 - prev_offset,
                    next_offset - prev_offset)

\* variant of ScheduledTarget: past the last entry it falls back to night light
ScheduledTarget_pastnight(entries, t) ==
    LET i == FirstAfter(entries, t, 1)
    IN  IF i = 0
        THEN NightLight
        ELSE IF i = 1
             THEN <<entries[1].warm, entries[1].cool>>
             ELSE Interpolate(entries[i - 1], entries[i],
                              t - entries[i - 1].unix_time,
                              entries[i].unix_time - entries[i - 1].unix_time)

\* variant of ScheduledTarget: interpolates from the oldest past entry
ScheduledTarget_firstpast(entries, t) ==
    LET i == FirstAfter(entries, t, 1)
    IN  IF i = 0
        THEN <<entries[Len(entries)].warm, entries[Len(entries)].cool>>
        ELSE IF i = 1
             THEN <<entries[1].warm, entries[1].cool>>
             ELSE Interpolate(entries[1], entries[i],
                              t - entries[1].unix_time,
                              entries[i].unix_time - entries[1].unix_time)

\* the non-demo branch of get_current_target
ScheduledTarget(entries, t) ==
    LET i == FirstAfter(entries, t, 1)
    IN  IF i = 0
        THEN <<entries[Len(entries)].warm, entries[Len(entries)].cool>>
        ELSE IF i = 1
             THEN <<entries[1].warm, entries[1].cool>>
             ELSE Interpolate(entries[i - 1], entries[i],
                              t - entries[i - 1].unix_time,
                              entries[i].unix_time - entries[i - 1].unix_time)

\* variant of get_current_target: demo mode is looked at before the cache
get_current_target_demofirst(entries, demo, t) ==
    IF demo
    THEN IF entries = << >> THEN <<FZero, FZero>> ELSE _get_demo_target(entries, t)
    ELSE IF entries = << >> THEN NightLight
         ELSE ScheduledTarget(entries, t)

get_current_target(entries, demo, t) ==
    IF entries = << >> THEN NightLight
    ELSE IF demo THEN _get_demo_target(entries, t)
         ELSE ScheduledTarget(entries, t)

\* ------------------------------------------------------------------------
\* LEDDriver
\* ------------------------------------------------------------------------
\* variant of set_brightness that stores the two channels the wrong way round
set_brightness_swapped(warm, cool) == <<Clamp01(cool), Clamp01(warm)>>

\* set_brightness(warm, cool): the pair it stores
set_brightness(warm, cool) == <<Clamp01(warm), Clamp01(cool)>>

\* variant of Update that also stamps the schedule cache as freshly fetched
Update_stamps ==
    LET t == get_current_target(get_entries, is_demo_mode, now)
    IN  /\ target' = t
        /\ led' = set_brightness(t[1], t[2])
        /\ op' = "update"
        /\ ret' = "None"
        /\ http_result' = "none"
        /\ http_body' = NoBody
        /\ last_fetch_time' = now
        /\ UNCHANGED <<now, ticks, fetches, demo_schedule, cached_schedule, mode,
                       utc_offset, last_retry_delays, httpVars>>
        /\ printed' = {}
        /\ UNCHANGED <<mainVars, netVars, ledVars>>

\* TransitionEngine.update(): compute the target and apply it
Update ==
    LET t == get_current_target(get_entries, is_demo_mode, now)
    IN  /\ target' = t
        /\ led' = set_brightness(t[1], t[2])
        /\ op' = "update"
        /\ ret' = "None"
        /\ http_result' = "none"
        /\ http_body' = NoBody
        /\ UNCHANGED <<now, ticks, fetches, demo_schedule, cacheVars, last_retry_delays, httpVars>>
        /\ printed' = {}
        /\ UNCHANGED <<mainVars, netVars, ledVars>>

\* a call of ScheduleManager.needs_refresh()
NeedsRefresh ==
    /\ op' = "needs_refresh"
    /\ ret' = IF needs_refresh THEN "True" ELSE "False"
    /\ target' = NoTarget
    /\ http_result' = "none"
    /\ http_body' = NoBody
    /\ UNCHANGED <<now, ticks, fetches, demo_schedule, cacheVars, last_retry_delays, led, httpVars>>
    /\ printed' = {}
    /\ UNCHANGED <<mainVars, netVars, ledVars>>

\* ------------------------------------------------------------------------
\* The clock
\* ------------------------------------------------------------------------
TickDeltas == {1, 1800, 6 * SecondsPerHour}

Tick ==
    /\ ticks < MaxTicks
    /\ \E d \in TickDeltas : now' = now + d
    /\ ticks' = ticks + 1
    /\ op' = "tick"
    /\ ret' = "None"
    /\ target' = NoTarget
    /\ http_result' = "none"
    /\ http_body' = NoBody
    /\ UNCHANGED <<fetches, demo_schedule, cacheVars, last_retry_delays, led, httpVars>>
    /\ printed' = {}
    /\ UNCHANGED <<mainVars, netVars, ledVars>>

compVars == <<now, ticks, fetches, printed, demo_schedule, cached_schedule, mode,
              last_fetch_time, utc_offset, last_retry_delays, led, target,
              op, ret, http_result, http_calls, http_outcomes, http_body,
              http_attempts, http_return>>

\* the state after ScheduleManager.__init__, NetworkManager.__init__ and
\* LEDDriver.__init__
InitComp ==
    /\ now = 0
    /\ ticks = 0
    /\ fetches = 0
    /\ printed = {}
    /\ demo_schedule \in {DEMO_SCHEDULE, << >>}
    /\ cached_schedule = << >>
    /\ mode = DEFAULT_SCHEDULE_MODE
    /\ last_fetch_time = 0
    /\ utc_offset = 0
    /\ last_retry_delays = << >>
    /\ led = <<FZero, FZero>>
    /\ target = NoTarget
    /\ op = "init"
    /\ ret = "None"
    /\ http_result = "none"
    /\ http_calls = 0
    /\ http_outcomes = << >>
    /\ http_body = NoBody
    /\ http_attempts = 0
    /\ http_return = NoReturn

\* ------------------------------------------------------------------------
\* NetworkManager on its own: http_get and http_post calls
\* ------------------------------------------------------------------------
\* number of http_get() / http_post() calls in one behaviour
MaxRequests == 3

\* what the attempts of one request can meet; a sequence shorter than
\* HTTP_MAX_RETRIES is followed by failures, a longer one shows what further
\* attempts would have met
RequestOutcomeSeqs ==
    { <<"ok">>,
      <<"decode">>,
      <<"status", "ok">>,
      <<"transport", "decode", "ok">>,
      <<"decode", "decode", "decode">>,
      <<"transport", "status", "transport", "ok">>,
      <<"ok", "transport", "status">>,
      <<"created", "ok">>,
      <<"status", "created", "created">> }

\* bodies a GET can decode: JSON objects and a JSON value that is not one
RequestBodies ==
    { Response("dayNight", 0, "list", <<EntryDawn, EntrySunrise>>),
      Response("demo", 0, "absent", << >>),
      NoBody }

requestFrame ==
    UNCHANGED <<ticks, fetches, printed, demo_schedule, cacheVars, led, target, mainVars,
                netVars, ledVars>>

\* one NetworkManager.http_get(): its attempts, its sleeps, its return value
HttpGet ==
    /\ http_calls < MaxRequests
    /\ \E outcomes \in RequestOutcomeSeqs, body \in RequestBodies :
         LET r == http_get(outcomes, body)
         IN  /\ now' = now + SumSeq(r.delays)
             /\ last_retry_delays' = r.delays
             /\ http_outcomes' = outcomes
             /\ http_body' = IF r.how = "exhausted" THEN NoBody ELSE body
             /\ http_attempts' = r.attempts
             /\ http_result' = r.how
             /\ http_return' = IF r.isNone THEN HttpRet("None", NoBody)
                                ELSE HttpRet("dict", r.body)
    /\ http_calls' = http_calls + 1
    /\ op' = "http_get"
    /\ ret' = "None"
    /\ requestFrame

\* one NetworkManager.http_post()
HttpPost ==
    /\ http_calls < MaxRequests
    /\ \E outcomes \in RequestOutcomeSeqs :
         LET r == http_post(outcomes)
         IN  /\ now' = now + SumSeq(r.delays)
             /\ last_retry_delays' = r.delays
             /\ http_outcomes' = outcomes
             /\ http_body' = NoBody
             /\ http_attempts' = r.attempts
             /\ http_result' = r.how
             /\ http_return' = HttpRet(r.result, NoBody)
    /\ http_calls' = http_calls + 1
    /\ op' = "http_post"
    /\ ret' = "None"
    /\ requestFrame

\* ------------------------------------------------------------------------
\* main.py: the module-level controller
\* ------------------------------------------------------------------------
\* number of run_scheduled_tasks() calls and demo cycles in one behaviour
MaxRuns == 3

\* the device clock after the first NTP answer (it boots at 0)
NtpEpoch == 1000 * SecondsPerDay

NetworkEvents == {"post", "connect", "ntp", "get"}

\* an entry of schedule_data (hasTime: the entry carries its "time" key)
ME(t, w, c, hasTime) == [present |-> TRUE, unix_time |-> t, warmBrightness |-> w,
                         coolBrightness |-> c, hasTime |-> hasTime]
\* a key of config.NAMED_SCHEDULE_KEYS that schedule_data lacks
MissingKey == [present |-> FALSE, unix_time |-> 0, warmBrightness |-> 0,
               coolBrightness |-> 0, hasTime |-> FALSE]

NoData == [mode |-> "None", schedule |-> << >>, named |-> << >>, update_time_unix |-> 0]

\* what the schedule endpoint answers at time t (the inputs of fetch_schedule)
ServerKinds == {"sched", "day", "day_missing", "notime", "demo", "unknown"}
ServerData(kind, t) ==
    CASE kind = "sched" ->
           [mode |-> "scheduled", named |-> << >>, update_time_unix |-> t + 1800,
            schedule |-> <<ME(t + 900, 100, 0, TRUE), ME(t + 300, 50, 50, TRUE)>>]
      [] kind = "notime" ->
           [mode |-> "scheduled", named |-> << >>, update_time_unix |-> t + 1800,
            schedule |-> <<ME(t - 50, 40, 40, TRUE), ME(t + 300, 70, 70, FALSE)>>]
      [] kind = "day" ->
           [mode |-> "dayNight", schedule |-> << >>, update_time_unix |-> t + 1800,
            named |-> <<ME(t - 100, 30, 0, TRUE), ME(t + 700, 80, 60, TRUE)>>]
      [] kind = "day_missing" ->
           [mode |-> "dayNight", schedule |-> << >>, update_time_unix |-> t + 1800,
            named |-> <<ME(t - 100, 30, 0, TRUE), MissingKey>>]
      [] kind = "demo" ->
           [mode |-> "demo", schedule |-> << >>, named |-> << >>, update_time_unix |-> t + 1800]
      [] OTHER ->
           [mode |-> "party", schedule |-> << >>, named |-> << >>, update_time_unix |-> t + 1800]

\* the running state of a handler: LED output, clock, events, exception flag
St(l, src, t, ev, r) == [led |-> l, led_src |-> src, now |-> t, events |-> ev, raised |-> r]

\* night_light(): log_to_aws(...) and then set_leds(NIGHT_LIGHT_BRIGHTNESS, 0)
night_light(st) ==
    [st EXCEPT !.events = st.events \o <<"post", "led_night">>,
               !.led = NightLight, !.led_src = "night"]

\* get_transition_duration(entry) at time t
get_transition_duration(entry, t) ==
    IF entry.unix_time - t <= 0 THEN 60
    ELSE IF entry.unix_time - t < 1 THEN 1 ELSE entry.unix_time - t

\* run_lighting_transition(entry, forced_duration): fades to the entry's target
\* (the last step writes the target itself), blocking for the duration; an
\* entry without "time" raises KeyError when the log message is built
run_lighting_transition(entry, forced, st) ==
    LET duration == IF forced # 0 THEN forced ELSE get_transition_duration(entry, st.now)
    IN  IF ~entry.hasTime
        THEN [st EXCEPT !.raised = TRUE]
        ELSE [st EXCEPT !.events = st.events \o <<"post", "led_sched", "sleep", "post">>,
                        !.led = <<PctToFloat(entry.warmBrightness),
                                  PctToFloat(entry.coolBrightness)>>,
                        !.led_src = "schedule",
                        !.now = st.now + duration]

\* the for loops over the future entries (logEach: log before each transition)
RECURSIVE RunTransitions(_, _, _)
RunTransitions(entries, logEach, st) ==
    IF entries = << >> \/ st.raised THEN st
    ELSE RunTransitions(Tail(entries), logEach,
            run_lighting_transition(Head(entries), 0,
                IF logEach THEN [st EXCEPT !.events = st.events \o <<"post">>] ELSE st))

SelectPast(entries, t) == SelectSeq(entries, LAMBDA e : e.unix_time <= t)
SelectFuture(entries, t) == SelectSeq(entries, LAMBDA e : e.unix_time > t)

\* run_schedule_list()
run_schedule_list(sd, st) ==
    LET sorted_entries == SortByTime(sd.schedule)
        past_entries == SelectPast(sorted_entries, st.now)
        st1 == IF past_entries = << >> THEN st
               ELSE [st EXCEPT !.events = st.events \o <<"led_sched">>,
                               !.led = <<PctToFloat(Last(past_entries).warmBrightness),
                                         PctToFloat(Last(past_entries).coolBrightness)>>,
                               !.led_src = "schedule"]
    IN  RunTransitions(SelectFuture(sorted_entries, st.now), FALSE, st1)

\* run_named_schedule_entries()
run_named_schedule_entries(sd, st) ==
    LET named_entries == SortByTime(SelectSeq(sd.named, LAMBDA e : e.present))
        past == SelectPast(named_entries, st.now)
        st1 == IF past = << >> THEN st ELSE run_lighting_transition(Last(past), 2, st)
    IN  RunTransitions(SelectFuture(named_entries, st.now), TRUE, st1)

\* any(schedule_data[key]["unix_time"] > now for key in NAMED_SCHEDULE_KEYS)
RECURSIVE AnyNamedFuture(_, _, _)
AnyNamedFuture(named, t, i) ==
    IF i > Len(named) THEN "False"
    ELSE IF ~named[i].present THEN "raise"
         ELSE IF named[i].unix_time > t THEN "True"
              ELSE AnyNamedFuture(named, t, i + 1)

\* has_future_events(): "True", "False", or "raise" (KeyError)
has_future_events(sd, t) ==
    IF sd.mode = "None" THEN "False"
    ELSE IF sd.mode = "scheduled"
         THEN IF \E i \in 1..Len(sd.schedule) : sd.schedule[i].unix_time > t
              THEN "True" ELSE "False"
         ELSE IF sd.mode = "dayNight" THEN AnyNamedFuture(sd.named, t, 1)
              ELSE "False"

\* run_scheduled_tasks() for a schedule that is not in demo mode:
\* the final handler state and the new schedule_data
run_scheduled_tasks(sd, st0, ntp_ok, answer) ==
    LET st1 == [st0 EXCEPT !.events = IF ntp_ok THEN <<"ntp">> ELSE <<"ntp", "post">>]
        hfe == has_future_events(sd, st1.now)
        waits == sd.mode # "None" /\ st1.now < sd.update_time_unix
        st2 == IF waits
               THEN [st1 EXCEPT !.events = st1.events \o <<"sleep">>,
                                !.now = sd.update_time_unix]
               ELSE st1
    IN  IF sd.mode # "None" /\ hfe = "raise"
        THEN [st |-> [st1 EXCEPT !.raised = TRUE], sd |-> sd]
        ELSE IF sd.mode = "None" \/ hfe = "False"
             THEN [st |-> [st2 EXCEPT !.events = st2.events \o <<"get", "post">>],
                   sd |-> IF answer = "fail" THEN sd ELSE ServerData(answer, st2.now)]
             ELSE IF sd.mode = "scheduled"
                  THEN [st |-> run_schedule_list(sd, st1), sd |-> sd]
                  ELSE [st |-> run_named_schedule_entries(sd, st1), sd |-> sd]

mainFrame == UNCHANGED <<ticks, fetches, printed, demo_schedule, cacheVars, last_retry_delays,
                         op, ret, target, http_result, http_body, httpVars,
                         netVars, ledVars>>

\* startup, phase 1: night_light()
NightLightStep ==
    /\ pc = "boot"
    /\ LET st == night_light(St(led, led_src, now, trace, FALSE))
       IN  /\ led' = st.led
           /\ led_src' = st.led_src
           /\ trace' = st.events
    /\ pc' = "connect"
    /\ UNCHANGED <<now, wifi_connection, schedule_data, NEXT_RUN, runs, time_synced,
                   phase_failed, raised>>
    /\ mainFrame

\* startup, phase 2: connect_wifi(); its result is not looked at.  It has no
\* exception handler of its own: an OSError of WLAN.connect() leaves it and
\* ends the script in the handler at the bottom of the module
ConnectStep ==
    /\ pc = "connect"
    /\ \E how \in {"ok", "timeout", "raise"} :
         /\ wifi_connection' = (how = "ok")
         /\ now' = IF how = "ok" THEN now + 5 ELSE IF how = "timeout" THEN now + 30 ELSE now
         /\ phase_failed' = IF how = "ok" THEN phase_failed ELSE "wifi"
         /\ trace' = IF how = "raise" THEN trace \o <<"connect", "raise", "post">>
                     ELSE trace \o <<"connect", "post">>
         /\ pc' = IF how = "raise" THEN "halted" ELSE "ntp"
    /\ UNCHANGED <<led, led_src, schedule_data, NEXT_RUN, runs, time_synced, raised>>
    /\ mainFrame

\* variant of NtpStep in which a failed ntptime.settime() is swallowed and the
\* startup block goes on to fetch_schedule()
NtpStep_swallow ==
    /\ pc = "ntp"
    /\ \E ok \in BOOLEAN :
         /\ ok => wifi_connection
         /\ time_synced' = ok
         /\ now' = IF ok THEN now + NtpEpoch ELSE now
         /\ trace' = IF ok THEN trace \o <<"ntp">> ELSE trace \o <<"ntp", "post">>
         /\ pc' = "fetch"
         /\ phase_failed' = IF ~ok /\ phase_failed = "none" THEN "ntp" ELSE phase_failed
    /\ UNCHANGED <<led, led_src, wifi_connection, schedule_data, NEXT_RUN, runs, raised>>
    /\ mainFrame

\* startup, phase 3: ntptime.settime(); it raises when no server answers, and
\* the exception ends the script in the handler at the bottom of the module
NtpStep ==
    /\ pc = "ntp"
    /\ \E ok \in BOOLEAN :
         /\ ok => wifi_connection
         /\ time_synced' = ok
         /\ now' = IF ok THEN now + NtpEpoch ELSE now
         /\ trace' = IF ok THEN trace \o <<"ntp">> ELSE trace \o <<"ntp", "post">>
         /\ pc' = IF ok THEN "fetch" ELSE "halted"
         /\ phase_failed' = IF ~ok /\ phase_failed = "none" THEN "ntp" ELSE phase_failed
    /\ UNCHANGED <<led, led_src, wifi_connection, schedule_data, NEXT_RUN, runs, raised>>
    /\ mainFrame

\* startup, phase 4: fetch_schedule() of main.py, then NEXT_RUN = time.time()
FetchStep ==
    /\ pc = "fetch"
    /\ \E answer \in ServerKinds \cup {"fail"} :
         /\ answer # "fail" => wifi_connection
         /\ schedule_data' = IF answer = "fail" THEN schedule_data ELSE ServerData(answer, now)
         /\ phase_failed' = IF answer = "fail" /\ phase_failed = "none"
                            THEN "fetch" ELSE phase_failed
    /\ trace' = trace \o <<"get", "post">>
    /\ NEXT_RUN' = now
    /\ pc' = "loop"
    /\ UNCHANGED <<now, led, led_src, wifi_connection, runs, time_synced, raised>>
    /\ mainFrame

\* the main loop while the heartbeat is not due: time.sleep(1) until it is
Idle ==
    /\ pc = "loop"
    /\ now < NEXT_RUN
    /\ now' = NEXT_RUN
    /\ UNCHANGED <<led, mainVars>>
    /\ mainFrame

\* the period of the scheduler heartbeat, in seconds
HEARTBEAT_S == 600

\* variant of NextHeartbeat that moves the heartbeat past the current time
NextHeartbeat_skip(next_run, t) ==
    IF t < next_run + HEARTBEAT_S THEN next_run + HEARTBEAT_S
    ELSE next_run + HEARTBEAT_S * ((t - next_run) \div HEARTBEAT_S + 1)

\* NEXT_RUN += 600, whatever the time t at which the handler returned
NextHeartbeat(next_run, t) == next_run + HEARTBEAT_S

\* the main loop when the heartbeat is due: run_scheduled_tasks(), NEXT_RUN += 600
RunScheduledTasks ==
    /\ pc = "loop"
    /\ now >= NEXT_RUN
    /\ runs < MaxRuns
    /\ runs' = runs + 1
    /\ \E ntp_ok \in BOOLEAN, answer \in ServerKinds \cup {"fail"} :
         /\ (ntp_ok \/ answer # "fail") => wifi_connection
         /\ time_synced' = (time_synced \/ ntp_ok)
         /\ IF schedule_data.mode = "demo"
            THEN \* while True: run_demo_cycle()
                 /\ pc' = "demo"
                 /\ trace' = IF ntp_ok THEN <<"ntp">> ELSE <<"ntp", "post">>
                 /\ raised' = FALSE
                 /\ UNCHANGED <<now, led, led_src, schedule_data, NEXT_RUN>>
            ELSE LET r == run_scheduled_tasks(schedule_data,
                                              St(led, led_src, now, << >>, FALSE),
                                              ntp_ok, answer)
                 IN  /\ led' = r.st.led
                     /\ led_src' = r.st.led_src
                     /\ now' = r.st.now
                     /\ raised' = r.st.raised
                     /\ schedule_data' = r.sd
                     /\ trace' = IF r.st.raised THEN r.st.events \o <<"post">> ELSE r.st.events
                     /\ pc' = IF r.st.raised THEN "halted" ELSE "loop"
                     /\ NEXT_RUN' = IF r.st.raised THEN NEXT_RUN
                                    ELSE NextHeartbeat(NEXT_RUN, r.st.now)
    /\ UNCHANGED <<wifi_connection, phase_failed>>
    /\ mainFrame

\* variant of DemoCycle: after one cycle the handler returns to the main loop
DemoCycle_returns ==
    /\ pc = "demo"
    /\ runs < MaxRuns
    /\ runs' = runs + 1
    /\ led' = <<NIGHT_LIGHT_BRIGHTNESS, FZero>>
    /\ led_src' = "demo"
    /\ now' = now + 10
    /\ trace' = <<"post", "led_demo", "sleep", "post">>
    /\ pc' = "loop"
    /\ UNCHANGED <<wifi_connection, schedule_data, NEXT_RUN, time_synced,
                   phase_failed, raised>>
    /\ mainFrame

\* one run_demo_cycle() of the endless demo loop: it ends at night-light level
DemoCycle ==
    /\ pc = "demo"
    /\ runs < MaxRuns
    /\ runs' = runs + 1
    /\ led' = <<NIGHT_LIGHT_BRIGHTNESS, FZero>>
    /\ led_src' = "demo"
    /\ now' = now + 10
    /\ trace' = <<"post", "led_demo", "sleep", "post">>
    /\ UNCHANGED <<pc, wifi_connection, schedule_data, NEXT_RUN, time_synced,
                   phase_failed, raised>>
    /\ mainFrame

\* KeyboardInterrupt: log, then machine.reset()
KeyboardInterrupt ==
    /\ pc \notin {"halted", "reset"}
    /\ pc' = "reset"
    /\ trace' = trace \o <<"post">>
    /\ UNCHANGED <<now, led, led_src, wifi_connection, schedule_data, NEXT_RUN, runs,
                   time_synced, phase_failed, raised>>
    /\ mainFrame

\* the state when main.py starts: PWM outputs at duty 0, no WiFi, no schedule
InitMain ==
    /\ pc = "boot"
    /\ wifi_connection = FALSE
    /\ schedule_data = NoData
    /\ NEXT_RUN = 0
    /\ runs = 0
    /\ time_synced = FALSE
    /\ phase_failed = "none"
    /\ led_src = "none"
    /\ raised = FALSE
    /\ trace = << >>

\* ------------------------------------------------------------------------
\* NetworkManager step by step: connect_wifi, ensure_connected, sync_time
\* and the retry loop of http_get / http_post
\* ------------------------------------------------------------------------
\* number of public NetworkManager calls in one behaviour of SpecNet
MaxNetCalls == 3
\* the timeout arguments connect_wifi() and ensure_connected() are called with
ConnectTimeouts == {0, 1}
\* len(NetworkManager.DEFAULT_NTP_SERVERS)
NtpServerCount == 3
\* s.settimeout(5) in _ntp_request
NtpSocketTimeout == 5

\* no call in progress
NoCall == [op |-> "idle", via |-> "none", start |-> 0, timeout |-> 0, half |-> 0,
           server |-> 0, method |-> "none", attempt |-> 0]

\* NetworkManager.is_connected()
is_connected == wlan_made /\ associated

\* the state after NetworkManager.__init__, the radio not associated
InitNet ==
    /\ net_call = NoCall
    /\ net_calls = 0
    /\ associated = FALSE
    /\ joining = FALSE
    /\ wlan_made = FALSE
    /\ join_requests = 0
    /\ connect_calls = 0
    /\ nm_time_synced = FALSE
    /\ rtc_writes = 0
    /\ sync_succeeded = FALSE
    /\ ntp_log = << >>

netFrame ==
    UNCHANGED <<ticks, fetches, printed, demo_schedule, cacheVars, led, target, http_result,
                http_body, httpVars, mainVars, ledVars>>

\* variant of connect_wifi_enter that calls WLAN.connect() before it looks at
\* isconnected()
connect_wifi_enter_rejoin(timeout, via) ==
    /\ wlan_made' = TRUE
    /\ connect_calls' = connect_calls + 1
    /\ associated' = associated
    /\ join_requests' = join_requests + 1
    /\ IF associated
       THEN /\ net_call' = NoCall
            /\ op' = via
            /\ ret' = "True"
            /\ joining' = joining
       ELSE /\ net_call' = [NoCall EXCEPT !.op = "connect_wifi", !.via = via,
                                          !.start = now, !.timeout = timeout]
            /\ joining' = TRUE
            /\ UNCHANGED <<op, ret>>

\* connect_wifi(timeout) from its first line to the polling loop: the WLAN
\* object is made and activated, an associated radio returns True at once,
\* otherwise WLAN.connect() is called, which may raise (caught: return False)
connect_wifi_enter(timeout, via) ==
    /\ wlan_made' = TRUE
    /\ connect_calls' = connect_calls + 1
    /\ associated' = associated
    /\ IF associated
       THEN /\ net_call' = NoCall
            /\ op' = via
            /\ ret' = "True"
            /\ UNCHANGED <<join_requests, joining>>
       ELSE /\ join_requests' = join_requests + 1
            /\ \E raises \in BOOLEAN :
                 IF raises
                 THEN /\ net_call' = NoCall
                      /\ op' = via
                      /\ ret' = "False"
                      /\ joining' = joining
                 ELSE /\ net_call' = [NoCall EXCEPT !.op = "connect_wifi", !.via = via,
                                                    !.start = now, !.timeout = timeout]
                      /\ joining' = TRUE
                      /\ UNCHANGED <<op, ret>>

\* a call of NetworkManager.connect_wifi(timeout)
ConnectWifi ==
    /\ net_call.op = "idle"
    /\ net_calls < MaxNetCalls
    /\ net_calls' = net_calls + 1
    /\ \E timeout \in ConnectTimeouts : connect_wifi_enter(timeout, "connect_wifi")
    /\ UNCHANGED <<now, last_retry_delays, nm_time_synced, rtc_writes, sync_succeeded, ntp_log>>
    /\ netFrame

\* a call of NetworkManager.ensure_connected(timeout)
EnsureConnected ==
    /\ net_call.op = "idle"
    /\ net_calls < MaxNetCalls
    /\ net_calls' = net_calls + 1
    /\ IF is_connected
       THEN /\ op' = "ensure_connected"
            /\ ret' = "True"
            /\ UNCHANGED <<net_call, associated, joining, wlan_made, join_requests,
                           connect_calls>>
       ELSE \E timeout \in ConnectTimeouts : connect_wifi_enter(timeout, "ensure_connected")
    /\ UNCHANGED <<now, last_retry_delays, nm_time_synced, rtc_writes, sync_succeeded, ntp_log>>
    /\ netFrame

\* variant of ConnectPoll whose loop has no timeout test
ConnectPoll_notimeout ==
    /\ net_call.op = "connect_wifi"
    /\ IF associated
       THEN /\ net_call' = NoCall
            /\ op' = net_call.via
            /\ ret' = "True"
            /\ now' = now
       ELSE /\ net_call' = [net_call EXCEPT !.half = 1 - net_call.half]
            /\ now' = IF net_call.half = 1 /\ now - net_call.start <= net_call.timeout
                      THEN now + 1 ELSE now
            /\ UNCHANGED <<op, ret>>
    /\ UNCHANGED <<last_retry_delays, net_calls, associated, joining, wlan_made,
                   join_requests, connect_calls, nm_time_synced, rtc_writes,
                   sync_succeeded, ntp_log>>
    /\ netFrame

\* one turn of the polling loop of connect_wifi: leave with True when the radio
\* is associated, with False when more than `timeout` seconds have passed,
\* otherwise time.sleep(0.5)
ConnectPoll ==
    /\ net_call.op = "connect_wifi"
    /\ IF associated
       THEN /\ net_call' = NoCall
            /\ op' = net_call.via
            /\ ret' = "True"
            /\ now' = now
       ELSE IF now - net_call.start > net_call.timeout
       THEN /\ net_call' = NoCall
            /\ op' = net_call.via
            /\ ret' = "False"
            /\ now' = now
       ELSE /\ net_call' = [net_call EXCEPT !.half = 1 - net_call.half]
            /\ now' = IF net_call.half = 1 THEN now + 1 ELSE now
            /\ UNCHANGED <<op, ret>>
    /\ UNCHANGED <<last_retry_delays, net_calls, associated, joining, wlan_made,
                   join_requests, connect_calls, nm_time_synced, rtc_writes,
                   sync_succeeded, ntp_log>>
    /\ netFrame

\* the radio completes an outstanding join
LinkUp ==
    /\ joining
    /\ ~associated
    /\ associated' = TRUE
    /\ joining' = FALSE
    /\ op' = IF net_call.op = "idle" THEN "link_up" ELSE op
    /\ UNCHANGED <<now, last_retry_delays, ret, net_call, net_calls, wlan_made,
                   join_requests, connect_calls, nm_time_synced, rtc_writes,
                   sync_succeeded, ntp_log>>
    /\ netFrame

\* the radio loses its association
LinkDown ==
    /\ associated
    /\ associated' = FALSE
    /\ op' = IF net_call.op = "idle" THEN "link_down" ELSE op
    /\ UNCHANGED <<now, last_retry_delays, ret, net_call, net_calls, joining, wlan_made,
                   join_requests, connect_calls, nm_time_synced, rtc_writes,
                   sync_succeeded, ntp_log>>
    /\ netFrame

\* NetworkManager.NTP_DELTA = 2208988800 seconds = 25567 days: the distance
\* between the NTP epoch (1900) and the Unix epoch (1970)
NTP_DELTA_DAYS == 25567

\* a transmit timestamp, bytes 40..43 of the answer, written <<days, seconds>>
\* since 1900 (the value itself is days * 86400 + seconds)
NoTimestamp == <<0, 0>>
NtpTimestamps ==
    { NoTimestamp,
      <<NTP_DELTA_DAYS + 1000, 0>>,
      <<NTP_DELTA_DAYS + 1000, 90>> }

\* variant of NtpToUnix that cuts the timestamp down to whole days
NtpToUnix_days(ts) == (ts[1] - NTP_DELTA_DAYS) * SecondsPerDay

\* ntp_timestamp - NTP_DELTA
NtpToUnix(ts) == (ts[1] - NTP_DELTA_DAYS) * SecondsPerDay + ts[2]

\* a call of NetworkManager.sync_time(): the loop over the servers starts
SyncTime ==
    /\ net_call.op = "idle"
    /\ net_calls < MaxNetCalls
    /\ net_calls' = net_calls + 1
    /\ net_call' = [NoCall EXCEPT !.op = "sync_time", !.via = "sync_time", !.server = 1]
    /\ ntp_log' = << >>
    /\ UNCHANGED <<now, last_retry_delays, op, ret, associated, joining, wlan_made,
                   join_requests, connect_calls, nm_time_synced, rtc_writes,
                   sync_succeeded>>
    /\ netFrame

\* variant of SyncServer that clears _time_synced when the last server fails
SyncServer_clears ==
    /\ net_call.op = "sync_time"
    /\ \E answered \in BOOLEAN, ts \in NtpTimestamps :
         /\ answered => associated
         /\ answered <=> ts # NoTimestamp
         /\ ntp_log' = Append(ntp_log, [server |-> net_call.server,
                                        answered |-> answered, ts |-> ts])
         /\ IF answered
            THEN /\ now' = NtpToUnix(ts)
                 /\ rtc_writes' = rtc_writes + 1
                 /\ nm_time_synced' = TRUE
                 /\ sync_succeeded' = TRUE
                 /\ net_call' = NoCall
                 /\ op' = "sync_time"
                 /\ ret' = "True"
            ELSE /\ now' = now + NtpSocketTimeout
                 /\ UNCHANGED <<rtc_writes, sync_succeeded>>
                 /\ IF net_call.server < NtpServerCount
                    THEN /\ net_call' = [net_call EXCEPT !.server = net_call.server + 1]
                         /\ UNCHANGED <<op, ret, nm_time_synced>>
                    ELSE /\ net_call' = NoCall
                         /\ nm_time_synced' = FALSE
                         /\ op' = "sync_time"
                         /\ ret' = "False"
    /\ UNCHANGED <<last_retry_delays, net_calls, associated, joining, wlan_made,
                   join_requests, connect_calls>>
    /\ netFrame

\* one turn of the server loop of sync_time: _ntp_request(server); an answer
\* sets the RTC and _time_synced and returns True, no answer within the socket
\* timeout moves on to the next server, and after the last one returns False
SyncServer ==
    /\ net_call.op = "sync_time"
    /\ \E answered \in BOOLEAN, ts \in NtpTimestamps :
         /\ answered => associated
         /\ answered <=> ts # NoTimestamp
         /\ ntp_log' = Append(ntp_log, [server |-> net_call.server,
                                        answered |-> answered, ts |-> ts])
         /\ IF answered
            THEN /\ now' = NtpToUnix(ts)
                 /\ rtc_writes' = rtc_writes + 1
                 /\ nm_time_synced' = TRUE
                 /\ sync_succeeded' = TRUE
                 /\ net_call' = NoCall
                 /\ op' = "sync_time"
                 /\ ret' = "True"
            ELSE /\ now' = now + NtpSocketTimeout
                 /\ UNCHANGED <<rtc_writes, sync_succeeded, nm_time_synced>>
                 /\ IF net_call.server < NtpServerCount
                    THEN /\ net_call' = [net_call EXCEPT !.server = net_call.server + 1]
                         /\ UNCHANGED <<op, ret>>
                    ELSE /\ net_call' = NoCall
                         /\ op' = "sync_time"
                         /\ ret' = "False"
    /\ UNCHANGED <<last_retry_delays, net_calls, associated, joining, wlan_made,
                   join_requests, connect_calls>>
    /\ netFrame

\* a call of http_get() or http_post(): _last_retry_delays = [], attempt 0
HttpRequest ==
    /\ net_call.op = "idle"
    /\ net_calls < MaxNetCalls
    /\ net_calls' = net_calls + 1
    /\ \E method \in {"GET", "POST"} :
         net_call' = [NoCall EXCEPT !.op = "http", !.method = method,
                                    !.via = IF method = "GET" THEN "http_get"
                                            ELSE "http_post"]
    /\ last_retry_delays' = << >>
    /\ UNCHANGED <<now, op, ret, associated, joining, wlan_made, join_requests,
                   connect_calls, nm_time_synced, rtc_writes, sync_succeeded, ntp_log>>
    /\ netFrame

\* one turn of the retry loop of _http_request_with_retry: a successful attempt
\* returns, a failed one sleeps its backoff delay unless it was the last
HttpAttempt ==
    /\ net_call.op = "http"
    /\ \E outcome \in {"ok", "created", "status", "transport", "decode"} :
         /\ outcome \in {"ok", "created", "status", "decode"} => associated
         /\ IF AttemptSucceeds(net_call.method, outcome)
            THEN /\ net_call' = NoCall
                 /\ op' = net_call.via
                 /\ ret' = IF net_call.method = "GET" THEN "dict" ELSE "True"
                 /\ UNCHANGED <<now, last_retry_delays>>
            ELSE IF net_call.attempt < HTTP_MAX_RETRIES - 1
            THEN /\ net_call' = [net_call EXCEPT !.attempt = net_call.attempt + 1]
                 /\ last_retry_delays' =
                        Append(last_retry_delays, _calculate_backoff_delay(net_call.attempt))
                 /\ now' = now + _calculate_backoff_delay(net_call.attempt)
                 /\ UNCHANGED <<op, ret>>
            ELSE /\ net_call' = NoCall
                 /\ op' = net_call.via
                 /\ ret' = IF net_call.method = "GET" THEN "None" ELSE "False"
                 /\ UNCHANGED <<now, last_retry_delays>>
    /\ UNCHANGED <<net_calls, associated, joining, wlan_made, join_requests,
                   connect_calls, nm_time_synced, rtc_writes, sync_succeeded, ntp_log>>
    /\ netFrame

\* ------------------------------------------------------------------------
\* LEDDriver on its own: set_brightness, get_brightness, night_light, off
\* ------------------------------------------------------------------------
\* number of LEDDriver calls in one behaviour of SpecLed
MaxLedCalls == 3

\* brightness arguments: inside [0, 1], on its borders and outside it
LedLevels == {Frac(-1, 2), FZero, Frac(1, 4), Frac(1, 2), FOne, Frac(3, 2)}

\* the state after LEDDriver.__init__
InitLed ==
    /\ led_calls = 0
    /\ led_args = <<FZero, FZero>>
    /\ led_read = <<FZero, FZero>>

ledFrame ==
    UNCHANGED <<now, ticks, fetches, printed, demo_schedule, cacheVars, last_retry_delays, ret,
                target, http_result, http_body, httpVars, mainVars, netVars>>

\* LEDDriver.set_brightness(warm, cool); the PWM duty cycles it derives from
\* the stored pair are not part of the state
LedSetBrightness ==
    /\ led_calls < MaxLedCalls
    /\ led_calls' = led_calls + 1
    /\ \E warm \in LedLevels, cool \in LedLevels :
         /\ led_args' = <<warm, cool>>
         /\ led' = set_brightness(warm, cool)
    /\ op' = "set_brightness"
    /\ UNCHANGED led_read
    /\ ledFrame

\* LEDDriver.get_brightness()
LedGetBrightness ==
    /\ led_calls < MaxLedCalls
    /\ led_calls' = led_calls + 1
    /\ led_read' = <<led[1], led[2]>>
    /\ op' = "get_brightness"
    /\ UNCHANGED <<led, led_args>>
    /\ ledFrame

\* LEDDriver.night_light(brightness): set_brightness(brightness, 0.0)
LedNightLight ==
    /\ led_calls < MaxLedCalls
    /\ led_calls' = led_calls + 1
    /\ \E brightness \in LedLevels :
         /\ led_args' = <<brightness, FZero>>
         /\ led' = set_brightness(brightness, FZero)
    /\ op' = "night_light"
    /\ UNCHANGED led_read
    /\ ledFrame

\* LEDDriver.off(): set_brightness(0.0, 0.0)
LedOff ==
    /\ led_calls < MaxLedCalls
    /\ led_calls' = led_calls + 1
    /\ led_args' = <<FZero, FZero>>
    /\ led' = set_brightness(FZero, FZero)
    /\ op' = "off"
    /\ UNCHANGED led_read
    /\ ledFrame

vars == <<compVars, mainVars, netVars, ledVars>>

Init == InitComp /\ InitMain /\ InitNet /\ InitLed

Next == FetchSchedule \/ NeedsRefresh \/ Update \/ Tick

Spec == Init /\ [][Next]_vars

MainInit == InitComp /\ InitMain /\ InitNet /\ InitLed /\ demo_schedule = DEMO_SCHEDULE

NextMain ==
    \/ NightLightStep \/ ConnectStep \/ NtpStep \/ FetchStep
    \/ Idle \/ RunScheduledTasks \/ DemoCycle \/ KeyboardInterrupt

SpecMain == MainInit /\ [][NextMain]_vars

\* the interpreter keeps running the script: whatever step of it is possible
\* is eventually taken; the interrupt is left to the environment
SpecMainLive ==
    SpecMain /\ WF_vars(NightLightStep \/ ConnectStep \/ NtpStep \/ FetchStep
                        \/ Idle \/ RunScheduledTasks \/ DemoCycle)

HttpInit == InitComp /\ InitMain /\ InitNet /\ InitLed /\ demo_schedule = DEMO_SCHEDULE

NextHttp == HttpGet \/ HttpPost

SpecHttp == HttpInit /\ [][NextHttp]_vars

NetInit == InitComp /\ InitMain /\ InitNet /\ InitLed /\ demo_schedule = DEMO_SCHEDULE

NextNet ==
    \/ ConnectWifi \/ EnsureConnected \/ ConnectPoll \/ LinkUp \/ LinkDown
    \/ SyncTime \/ SyncServer \/ HttpRequest \/ HttpAttempt

SpecNet == NetInit /\ [][NextNet]_vars

LedInit == InitComp /\ InitMain /\ InitNet /\ InitLed /\ demo_schedule = DEMO_SCHEDULE

NextLed == LedSetBrightness \/ LedGetBrightness \/ LedNightLight \/ LedOff

SpecLed == LedInit /\ [][NextLed]_vars

\* ------------------------------------------------------------------------
\* TransitionEngine.get_current_target as a function of the cache and the
\* clock: the cache is fixed, the clock is put anywhere in a window around
\* the cache's anchor, and update() evaluates the target there
\* ------------------------------------------------------------------------
\* seconds before and after the anchor the clock is put at
EngineWindow == 32

\* the time the caches are built at: 01:40:00 of day 0
EngineAnchor == 100 * 60

EngineTimes == (EngineAnchor - EngineWindow)..(EngineAnchor + EngineWindow)

\* the waypoints of test_demo_mode_uses_config_schedule: the last offset is
\* below the cycle duration, so the cycle wraps from "day" back to "night"
DemoScheduleShort == << <<0, 10, 0, "night">>, <<5, 50, 50, "day">> >>

EngineConfigs == {DEMO_SCHEDULE, DemoScheduleShort}

\* a server schedule around the anchor: warm rises then falls, cool falls
\* then rises
EngineEntries ==
    << RawEntry(TimeHM(1, 39), Num(20), Num(100), "before"),
       RawEntry(TimeHM(1, 40), Num(100), Num(0), "anchor"),
       RawEntry(TimeHM(1, 41), Num(50), Num(50), "after") >>

\* a cache as fetch_schedule() leaves it at the anchor, the clock somewhere
\* in the window
EngineInit ==
    /\ InitMain /\ InitNet /\ InitLed
    /\ now \in EngineTimes
    /\ ticks = 0
    /\ fetches = 0
    /\ printed = {}
    /\ demo_schedule \in EngineConfigs
    /\ mode \in {"demo", "scheduled"}
    /\ cached_schedule = IF mode = "demo"
                         THEN DemoEntries(demo_schedule, EngineAnchor)
                         ELSE _compute_timestamps(EngineEntries, 0, EngineAnchor)
    /\ last_fetch_time = EngineAnchor
    /\ utc_offset = 0
    /\ last_retry_delays = << >>
    /\ led = <<FZero, FZero>>
    /\ target = NoTarget
    /\ op = "init"
    /\ ret = "None"
    /\ http_result = "none"
    /\ http_calls = 0
    /\ http_outcomes = << >>
    /\ http_body = NoBody
    /\ http_attempts = 0
    /\ http_return = NoReturn

\* the RTC is written (sync_time) or runs on: time.time() reads t from now on
SetClock ==
    /\ \E t \in EngineTimes : now' = t
    /\ op' = "tick"
    /\ ret' = "None"
    /\ target' = NoTarget
    /\ http_result' = "none"
    /\ http_body' = NoBody
    /\ UNCHANGED <<ticks, fetches, demo_schedule, cacheVars, last_retry_delays, led, httpVars>>
    /\ printed' = {}
    /\ UNCHANGED <<mainVars, netVars, ledVars>>

NextEngine == Update \/ SetClock

SpecEngine == EngineInit /\ [][NextEngine]_vars

\* a call in progress is never abandoned: the interpreter runs the single
\* thread of the program on, and every blocking primitive returns
SpecNetLive ==
    SpecNet /\ WF_vars(ConnectPoll) /\ WF_vars(SyncServer) /\ WF_vars(HttpAttempt)

\* ========================================================================
\* Properties of the controller in main.py (checked under SpecMain)
\* ========================================================================
Has(ev) == \E i \in DOMAIN trace : trace[i] = ev

\* the script is still in its startup block (no heartbeat has run yet)
InStartup == runs = 0 /\ pc \in {"boot", "connect", "ntp", "fetch", "loop", "halted"}

\* a completed run_scheduled_tasks() is the last handler that ran
AfterTick == runs > 0 /\ pc = "loop"

\* C1: during startup no network operation (WiFi association, NTP exchange,
\* HTTP GET, HTTP POST of a log line) is started before the LEDs have been
\* written to the night-light value.
C1_NightLightBeforeNetwork ==
    InStartup =>
        \A i \in DOMAIN trace :
            trace[i] \in NetworkEvents => \E j \in 1..(i - 1) : trace[j] = "led_night"

\* C2: the first failing startup phase ends the sequence: after a failed WiFi
\* connect no time sync and no schedule fetch is attempted, after a failed time
\* sync no schedule fetch is attempted, after any failure no LED update from
\* the schedule is made and the output is still the night-light value.
C2_FirstFailureEndsStartup ==
    InStartup =>
        /\ phase_failed = "wifi" => ~Has("ntp") /\ ~Has("get")
        /\ phase_failed = "ntp" => ~Has("get")
        /\ phase_failed # "none" => ~Has("led_sched") /\ led = NightLight

\* C3: an error raised inside a periodic tick does not leave the tick: the
\* output is forced to the night-light value and the script keeps running its
\* main loop.
C3_TickErrorContained ==
    raised => (led = NightLight /\ pc = "loop")

\* C4: the LED output is driven from the schedule (or the demo cycle) only if
\* an NTP sync has succeeded since boot, and while no sync has succeeded the
\* output, once written, is the night-light value.
C4_ScheduleOnlyAfterSync ==
    /\ led_src \in {"schedule", "demo"} => time_synced
    /\ (~time_synced /\ led_src # "none") => led = NightLight

\* C4 witness: a heartbeat whose own NTP exchange failed still drives the
\* LEDs from the schedule, the clock having been set at startup
C4_Witness ==
    /\ AfterTick
    /\ led_src = "schedule"
    /\ time_synced
    /\ trace[1] = "ntp" /\ trace[2] = "post"

\* the never-synced side of C4: startup ended without any NTP answer
C4_NeverSyncedReached ==
    pc = "halted" /\ ~time_synced /\ Has("ntp") /\ led = NightLight

\* C7: a tick that raises no error writes the LEDs from the schedule it has
\* in that same tick, and nothing in the tick sleeps before that write.
C7_TickAlwaysUpdates ==
    (AfterTick /\ ~raised) =>
        \E i \in DOMAIN trace :
            /\ trace[i] = "led_sched"
            /\ \A j \in 1..(i - 1) : trace[j] # "sleep"

\* the steps of the controller among the events of a trace (log POSTs and
\* sleeps left out)
StepEvents == {"led_night", "connect", "ntp", "get", "led_sched", "led_demo"}
Steps(q) == SelectSeq(q, LAMBDA e : e \in StepEvents)

\* C20: when WiFi connect, time sync and schedule fetch all succeed, startup
\* performs exactly these steps in this order: set night-light, connect, sync
\* time, fetch schedule, one LED update from the schedule.  The steps are
\* those of the startup block followed by the first pass of the main loop,
\* which runs at once.
C20_StartupSteps ==
    [][(pc = "loop" /\ runs = 0 /\ phase_failed = "none" /\ runs' = 1)
        => Steps(trace) \o Steps(trace')
             = <<"led_night", "connect", "ntp", "get", "led_sched">>]_vars
\* C28: when the controller is shut down by an interrupt, in the startup
\* block, in the main loop or in the demo loop, the LED output is (0, 0) when
\* the script ends.
C28_ShutdownTurnsOff ==
    pc = "reset" => led = <<FZero, FZero>>

\* the interrupt came while the demo loop was running
C28_DemoInterruptReached == pc = "reset" /\ led_src = "demo"
\* the step is a run of the periodic task; TickReturned: it came back to the
\* main loop
TickStep == pc = "loop" /\ runs' = runs + 1
TickReturned == TickStep /\ pc' = "loop"

\* C29: runs of the periodic task never overlap, and when a run takes longer
\* than the heartbeat period the heartbeats missed meanwhile are skipped: the
\* next run is not due before the long one has returned.
C29_MissedTicksSkipped ==
    [][ /\ TickStep => now >= NEXT_RUN
        /\ (TickReturned /\ now' - now > HEARTBEAT_S) => NEXT_RUN' >= now' ]_vars

\* C29, amended: runs of the periodic task never overlap: a run starts from
\* the main loop, when its heartbeat is due, and the loop goes on only when it
\* has returned.  A run that takes longer than the period does not make the
\* missed heartbeats disappear: every run moves NEXT_RUN on by exactly one
\* period and the idle loop never lets time pass a due heartbeat, so the
\* missed runs are made one after the other once the long run has returned.
C29_MissedTicksRunLate ==
    [][ /\ TickStep => now >= NEXT_RUN
        /\ TickReturned => (NEXT_RUN' = NEXT_RUN + HEARTBEAT_S /\ now' >= now)
        /\ (pc = "loop" /\ pc' = "loop" /\ runs' = runs) => now' <= NEXT_RUN' ]_vars

\* a run has returned later than the next heartbeat, which is now overdue
C29_Witness ==
    /\ AfterTick
    /\ runs = 1
    /\ now > NEXT_RUN

\* the overdue run has been made at once, and the heartbeat is still behind
C29_CatchUpReached ==
    /\ AfterTick
    /\ runs = 2
    /\ now > NEXT_RUN + HEARTBEAT_S
\* C30: every run of the periodic task returns to the main loop, in demo mode
\* too: a run that has gone into the demo cycles comes back to the loop.
C30_EveryTickReturns == (pc = "demo") ~> (pc = "loop")

\* the demo loop of run_scheduled_tasks() is left by the interrupt only
C30_DemoLoopNeverReturns ==
    [][pc = "demo" => pc' \in {"demo", "reset"}]_vars

\* a run in a non-demo mode has returned
C30_NonDemoReturnsReached == AfterTick /\ schedule_data.mode \in {"scheduled", "dayNight"}

\* the controller state the script is in: Booting during the startup block,
\* DemoLooping inside `while True: run_demo_cycle()`, Shutdown once the script
\* has ended; in the main loop Running while schedule_data holds a schedule of
\* a known mode and NightLightFallback while it holds none
ControllerState(p, sd) ==
    IF p \in {"boot", "connect", "ntp", "fetch"} THEN "Booting"
    ELSE IF p = "demo" THEN "DemoLooping"
    ELSE IF p \in {"halted", "reset"} THEN "Shutdown"
    ELSE IF sd.mode \in {"scheduled", "dayNight", "demo"} THEN "Running"
    ELSE "NightLightFallback"

ControllerTransitions ==
    { <<"Booting", "NightLightFallback">>, <<"Booting", "Running">>,
      <<"Running", "NightLightFallback">>, <<"NightLightFallback", "Running">>,
      <<"Running", "DemoLooping">> }

C37_FallbackReached ==
    /\ ControllerState(pc, schedule_data) = "NightLightFallback"
    /\ schedule_data.mode = "party"
    /\ runs >= 2

\* ========================================================================
\* Properties of NetworkManager's HTTP calls (checked under SpecHttp)
\* ========================================================================
IsRequest == op \in {"http_get", "http_post"}
Method == IF op = "http_get" THEN "GET" ELSE "POST"

\* index of the first attempt that would succeed, 0 when none does
FirstSuccess ==
    LET succ == { i \in 1..Len(http_outcomes) : AttemptSucceeds(Method, http_outcomes[i]) }
    IN  IF succ = {} THEN 0 ELSE CHOOSE i \in succ : \A j \in succ : i <= j

Exhausted == FirstSuccess = 0 \/ FirstSuccess > HTTP_MAX_RETRIES

\* C13: one http_get or http_post makes at most MAX_RETRIES attempts and none
\* after the first successful one; after failed attempt k it sleeps
\* BASE_DELAY * 2^k seconds before the next attempt (1, 2, 4 with base 1), and
\* it does not sleep after its final attempt.
C13_RetryAndBackoff ==
    /\ <<_calculate_backoff_delay(0), _calculate_backoff_delay(1),
         _calculate_backoff_delay(2)>> = <<1, 2, 4>>
    /\ IsRequest =>
        /\ http_attempts \in 1..HTTP_MAX_RETRIES
        /\ http_attempts = IF Exhausted THEN HTTP_MAX_RETRIES ELSE FirstSuccess
        /\ Len(last_retry_delays) = http_attempts - 1
        /\ \A k \in 0..(http_attempts - 2) :
              last_retry_delays[k + 1] = HTTP_BASE_DELAY_S * (2 ^ k)

\* a GET whose first two attempts fail and whose third succeeds
C13_Witness ==
    /\ op = "http_get"
    /\ http_outcomes = <<"transport", "decode", "ok">>
    /\ http_attempts = 3
    /\ last_retry_delays = <<1, 2>>
    /\ http_return.kind = "dict"

\* a call that uses up its attempts sleeps twice, not three times
C13_ExhaustedReached ==
    /\ IsRequest /\ Exhausted /\ Len(http_outcomes) > HTTP_MAX_RETRIES
    /\ http_attempts = HTTP_MAX_RETRIES /\ last_retry_delays = <<1, 2>>

\* C14: no exception leaves http_get or http_post: a GET that uses up its
\* attempts returns None and a POST returns False, whatever mix of transport
\* errors, bad statuses and decode errors the attempts met; a successful GET
\* returns the decoded JSON object and a successful POST returns True.
C14_TypedResults ==
    IsRequest =>
        /\ http_return.kind \in (IF Method = "GET" THEN {"dict", "None"} ELSE {"True", "False"})
        /\ (Method = "GET" /\ Exhausted) => http_return = HttpRet("None", NoBody)
        /\ (Method = "POST" /\ Exhausted) => http_return = HttpRet("False", NoBody)
        /\ (Method = "GET" /\ ~Exhausted /\ http_body.isdict)
              => http_return = HttpRet("dict", http_body)
        /\ (Method = "POST" /\ ~Exhausted) => http_return = HttpRet("True", NoBody)

\* a POST whose attempts met a transport error, a bad status and a transport
\* error returns False
C14_Witness ==
    /\ op = "http_post"
    /\ http_outcomes = <<"transport", "status", "transport", "ok">>
    /\ http_attempts = HTTP_MAX_RETRIES
    /\ http_return = HttpRet("False", NoBody)

\* a GET that decodes a JSON value which is not an object returns None
C14_NotAnObjectReached ==
    /\ op = "http_get" /\ ~Exhausted /\ ~http_body.isdict
    /\ http_return = HttpRet("None", NoBody)

\* an attempt that the retry contract counts as a success: any 2xx status
\* whose body, where the method decodes it, decodes
SucceedsBy2xx(method, outcome) ==
    outcome \in {"ok", "created"} \/ (method = "POST" /\ outcome = "decode")

\* index of the first attempt answered with a usable 2xx, 0 when none is
First2xx ==
    LET succ == { i \in 1..Len(http_outcomes) : SucceedsBy2xx(Method, http_outcomes[i]) }
    IN  IF succ = {} THEN 0 ELSE CHOOSE i \in succ : \A j \in succ : i <= j

\* C31: an attempt is a failure, retried while attempts remain, exactly when
\* it produced a non-2xx status, a transport error or a decode error; an
\* attempt answered with any 2xx status ends the retry loop with success.
C31_Any2xxEndsRetries ==
    IsRequest =>
        IF First2xx = 0 \/ First2xx > HTTP_MAX_RETRIES
        THEN /\ http_attempts = HTTP_MAX_RETRIES
             /\ http_return.kind \in {"None", "False"}
        ELSE /\ http_attempts = First2xx
             /\ http_result # "exhausted"

\* the retry core as written: status 200 alone ends the loop with success
C31_Only200EndsRetries ==
    IsRequest =>
        /\ http_attempts = (IF Exhausted THEN HTTP_MAX_RETRIES ELSE FirstSuccess)
        /\ (http_result = "exhausted") = Exhausted

\* a request answered 201 at once was retried
C31_CreatedRetriedReached ==
    /\ IsRequest
    /\ http_outcomes = <<"created", "ok">>
    /\ http_attempts = 2
    /\ last_retry_delays = <<1>>

\* ========================================================================
\* Properties of the component revision (checked under Spec)
\* ========================================================================
Values(e) == <<e.warm, e.cool>>

\* the caches a successful fetch at time t can install
CachesFrom(t) ==
    { _compute_timestamps(b.entries, b.utc, t) :
        b \in { x \in Responses : x.isdict /\ x.ekind = "list" /\ ~ComputeRaises(x.entries) } }
    \cup { DemoEntries(demo_schedule, t) }

\* C5: when every HTTP attempt of a schedule fetch fails, fetch_schedule()
\* returns False and the cached entries, the mode and last_fetch_time are
\* exactly what they were before the call.
C5_ExhaustedFetchKeepsCache ==
    [][(op' = "fetch_schedule" /\ http_result' = "exhausted")
        => /\ ret' = "False"
           /\ cached_schedule' = cached_schedule
           /\ mode' = mode
           /\ last_fetch_time' = last_fetch_time]_vars

\* a fetch whose three attempts all failed, made while a schedule fetched
\* earlier is cached
C5_Witness ==
    /\ op = "fetch_schedule" /\ http_result = "exhausted" /\ ret = "False"
    /\ last_retry_delays = <<1, 2>>
    /\ cached_schedule # << >> /\ last_fetch_time < now

\* C6: the cache (mode, entries, last_fetch_time) is never partially updated:
\* a fetch_schedule() that returns False leaves all three unchanged, a
\* fetch_schedule() that returns True installs entries derived from that call
\* alone and sets last_fetch_time to the time of the call.
C6_NoPartialUpdate ==
    [][(op' = "fetch_schedule")
        => /\ (ret' = "False") => /\ cached_schedule' = cached_schedule
                                  /\ mode' = mode
                                  /\ last_fetch_time' = last_fetch_time
           /\ (ret' = "True") => /\ cached_schedule' \in CachesFrom(now')
                                 /\ cached_schedule' # << >>
                                 /\ last_fetch_time' = now']_vars

\* the formula of linear interpolation between two entries at time t
LinearAt(prev, next, t) ==
    LET lin(a, b) == FAdd(a, FMul(FSub(b, a),
                                  Frac(t - prev.unix_time, next.unix_time - prev.unix_time)))
    IN  <<lin(prev.warm, next.warm), lin(prev.cool, next.cool)>>

ExampleSchedule(t0) ==
    << [unix_time |-> t0, warm |-> <<1, 5>>, cool |-> <<0, 1>>, label |-> "dawn"],
       [unix_time |-> t0 + 3600, warm |-> <<1, 1>>, cool |-> <<1, 1>>, label |-> "sunrise"] >>

\* C8: for a non-demo cache and adjacent entries prev, next with
\* prev.unix_time <= now < next.unix_time, get_current_target() returns
\* prev + (next - prev) * (now - prev.unix_time) / (next.unix_time - prev.unix_time)
\* on each channel; the schedule [(t0, 0.2, 0.0), (t0+3600, 1.0, 1.0)] at
\* t0+1800 gives (0.6, 0.5).
C8_LinearInterpolation ==
    (op = "update" /\ ~is_demo_mode)
        => /\ \A i \in 1..(Len(cached_schedule) - 1) :
                (cached_schedule[i].unix_time <= now /\ now < cached_schedule[i + 1].unix_time)
                    => target = LinearAt(cached_schedule[i], cached_schedule[i + 1], now)
           /\ \A t0 \in {0, SecondsPerDay} :
                (cached_schedule = ExampleSchedule(t0) /\ now = t0 + 1800)
                    => target = << <<3, 5>>, <<1, 2>> >>

\* update() halfway between the two entries of the example schedule
C8_Witness ==
    /\ op = "update" /\ ~is_demo_mode
    /\ cached_schedule = ExampleSchedule(0) /\ now = 1800
    /\ target = << <<3, 5>>, <<1, 2>> >> /\ led = target

C10_OutsideRange ==
    (op = "update" /\ ~is_demo_mode /\ cached_schedule # << >>)
        => /\ now > Last(cached_schedule).unix_time => target = Values(Last(cached_schedule))
           /\ now < cached_schedule[1].unix_time => target = Values(cached_schedule[1])

\* update() more than the staleness threshold after the last entry
C10_Witness ==
    /\ op = "update" /\ ~is_demo_mode /\ Len(cached_schedule) >= 2
    /\ now > Last(cached_schedule).unix_time + STALE_THRESHOLD
    /\ target = Values(Last(cached_schedule))
    /\ target # Values(cached_schedule[1])

\* update() before the first entry of the cache
C10_BeforeFirstReached ==
    ~(op = "update" /\ ~is_demo_mode /\ cached_schedule # << >>
      /\ now < cached_schedule[1].unix_time)

\* C11: with a cache of zero entries get_current_target() returns the
\* night-light pair (NIGHT_LIGHT_BRIGHTNESS, 0), in every mode, demo included.
C11_EmptyCacheNightLight ==
    (op = "update" /\ cached_schedule = << >>)
        => /\ target = <<NIGHT_LIGHT_BRIGHTNESS, FZero>>
           /\ target = << <<1, 4>>, <<0, 1>> >>
           /\ led = target

\* update() in demo mode with nothing cached (no demo schedule is configured)
C11_Witness ==
    /\ op = "update" /\ cached_schedule = << >> /\ is_demo_mode
    /\ target = NightLight

\* update() with nothing cached in a mode other than demo
C11_NonDemoReached ==
    op = "update" /\ cached_schedule = << >> /\ ~is_demo_mode /\ target = NightLight

\* x lies within [min(a, b), max(a, b)]
Between(x, a, b) == FLe(FMin(a, b), x) /\ FLe(x, FMax(a, b))

\* C12: for a non-demo cache with several past entries and a future one, the
\* target depends only on prev (the latest entry with unix_time <= now) and
\* next (the earliest with unix_time > now): each channel lies within
\* [min(prev, next), max(prev, next)], and the target is what the cache of
\* prev and next alone gives.
C12_SkipToMostRecent ==
    (op = "update" /\ ~is_demo_mode)
        => \A i \in 2..(Len(cached_schedule) - 1) :
              (cached_schedule[i].unix_time <= now /\ now < cached_schedule[i + 1].unix_time)
                 => LET prev == cached_schedule[i]
                        next == cached_schedule[i + 1]
                    IN  /\ Between(target[1], prev.warm, next.warm)
                        /\ Between(target[2], prev.cool, next.cool)
                        /\ target = get_current_target(<<prev, next>>, FALSE, now)

\* update() strictly between the third and the fourth entry of a cache whose
\* first entry differs from the third
C12_Witness ==
    /\ op = "update" /\ ~is_demo_mode
    /\ \E i \in 3..(Len(cached_schedule) - 1) :
          /\ cached_schedule[i].unix_time < now /\ now < cached_schedule[i + 1].unix_time
          /\ Values(cached_schedule[1]) # Values(cached_schedule[i])
          /\ target # Values(cached_schedule[i])
          /\ target # Values(cached_schedule[i + 1])

\* the entries the server responses are made of, and the one a label names
RawEntries ==
    { EntryDawn, EntrySunrise, EntryNoon, EntryNoon2, EntryOver, EntryUnder,
      EntryNoWarm, EntryNoTime, EntryNoColon, EntryNonNum, EntryBadHour }
RawByLabel(l) == CHOOSE r \in RawEntries : r.label = l

\* the entry has its time, and both brightness fields, each within 0..100
Complete(e) ==
    /\ e.time.k # "absent"
    /\ e.warm.k = "num" /\ 0 <= e.warm.v /\ e.warm.v <= 100
    /\ e.cool.k = "num" /\ 0 <= e.cool.v /\ e.cool.v <= 100

\* C15: an entry of a non-demo response that lacks its time, lacks a
\* brightness field, or has a brightness below 0 or above 100 does not appear
\* in the cache: every cached entry of a non-demo cache stems from an entry with
\* its time and both brightness fields present, the brightness within [0, 100].
C15_OnlyCompleteEntriesCached ==
    ~is_demo_mode =>
        \A i \in DOMAIN cached_schedule : Complete(RawByLabel(cached_schedule[i].label))

\* the entries of the decoded response that pass the per-entry validation
ValidEntries(body) == SelectSeq(body.entries, LAMBDA e : e.isdict /\ EntryKept(e))

\* C16: an invalid entry is not fatal by itself: a non-demo fetch whose response
\* holds at least one valid entry returns True and caches exactly the valid
\* entries; it returns False only when no valid entry remains.
C16_InvalidEntryNotFatal ==
    [][(op' = "fetch_schedule" /\ http_result' = "dict" /\ mode' # "demo")
        => LET valid == ValidEntries(http_body')
           IN  /\ valid # << >>
                    => /\ ret' = "True"
                       /\ cached_schedule' = _compute_timestamps(valid, http_body'.utc, now')
               /\ ret' = "False" => valid = << >>]_vars

InUnit(x) == FLe(FZero, x) /\ FLe(x, FOne)

\* C17: every entry of the schedule cache has warm and cool within [0, 1],
\* whether a server fetch or the demo-schedule generation filled the cache.
C17_CacheWithinUnit ==
    \A i \in DOMAIN cached_schedule :
        InUnit(cached_schedule[i].warm) /\ InUnit(cached_schedule[i].cool)

\* a server schedule cached with both ends of the range: 100 % and 0 %
C17_Witness ==
    /\ op = "fetch_schedule" /\ ret = "True" /\ ~is_demo_mode
    /\ \E i, j \in DOMAIN cached_schedule :
          /\ cached_schedule[i].warm = FOne
          /\ cached_schedule[j].cool = FZero

\* a demo schedule cached from the configured waypoints
C17_DemoReached ==
    /\ op = "fetch_schedule" /\ ret = "True" /\ is_demo_mode
    /\ Len(cached_schedule) = Len(DEMO_SCHEDULE)
    /\ \E i \in DOMAIN cached_schedule : cached_schedule[i].cool = FOne

\* C18: the cached entries are in non-decreasing unix_time order in every
\* state, for server schedules delivered in any order and for demo schedules
\* generated from the configured waypoints.
C18_CacheSorted ==
    \A i \in 1..(Len(cached_schedule) - 1) :
        cached_schedule[i].unix_time <= cached_schedule[i + 1].unix_time

\* the response delivered as sunrise, noon, dawn, noon2 is cached as dawn,
\* noon, noon2, sunrise
C18_Witness ==
    /\ op = "fetch_schedule" /\ ret = "True" /\ ~is_demo_mode
    /\ http_body.entries = <<EntrySunrise, EntryNoon, EntryDawn, EntryNoon2>>
    /\ [i \in 1..4 |-> cached_schedule[i].label] = <<"dawn", "noon", "noon2", "sunrise">>

\* a demo schedule is cached in waypoint order
C18_DemoReached ==
    /\ is_demo_mode /\ Len(cached_schedule) = Len(DEMO_SCHEDULE)
    /\ cached_schedule[1].label = "night"

\* C19: needs_refresh() returns True exactly when (a) the cache is empty, or
\* (b) now is more than 3600 s past the last entry's unix_time, or (c) more
\* than 6 h have passed since last_fetch_time; a value exactly at a threshold
\* does not trigger.
C19_NeedsRefresh ==
    op = "needs_refresh" =>
        LET a == Len(cached_schedule) = 0
            b == ~a /\ now - Last(cached_schedule).unix_time > 3600
            c == now - last_fetch_time > 6 * 3600
        IN  (ret = "True") <=> (a \/ b \/ c)

\* needs_refresh() exactly 3600 s after the last entry and exactly 6 h after
\* the fetch returns False
C19_Witness ==
    /\ op = "needs_refresh" /\ ret = "False"
    /\ cached_schedule # << >>
    /\ now = Last(cached_schedule).unix_time + 3600
    /\ now = last_fetch_time + 6 * 3600

\* (b) alone: a stale last entry, fetched less than 6 h ago
C19_StaleAloneReached ==
    /\ op = "needs_refresh" /\ ret = "True" /\ cached_schedule # << >>
    /\ now > Last(cached_schedule).unix_time + 3600
    /\ now - last_fetch_time <= 6 * 3600

\* (c) alone: fetched more than 6 h ago, the last entry not yet stale
C19_IntervalAloneReached ==
    /\ op = "needs_refresh" /\ ret = "True" /\ cached_schedule # << >>
    /\ now <= Last(cached_schedule).unix_time + 3600
    /\ now - last_fetch_time = 6 * 3600 + 1

\* (a) alone: nothing cached, at boot time
C19_EmptyAloneReached ==
    /\ op = "needs_refresh" /\ ret = "True" /\ cached_schedule = << >>
    /\ now = last_fetch_time


\* what the claim expects in the cache for an entry of the unified shape
UnifiedEntry(e) ==
    [unix_time |-> e.time.h, warm |-> PctToFloat(e.warm.v), cool |-> PctToFloat(e.cool.v),
     label |-> e.label]

\* C25: a fetch whose response has a non-demo mode and a brightnessSchedule
\* array of entries with unixTime, warmBrightness, coolBrightness and label
\* returns True and caches one entry per input entry, with unix_time the given
\* unixTime and warm, cool the percentages divided by 100; the legacy shape
\* (time strings under entries/schedule, top-level utc_offset) is accepted too.
C25_UnifiedShapeAccepted ==
    [][(op' = "fetch_schedule" /\ http_result' = "dict" /\ mode' # "demo") =>
          /\ http_body'.ekind = "unified" =>
                /\ ret' = "True"
                /\ cached_schedule' = [i \in DOMAIN http_body'.entries |->
                                          UnifiedEntry(http_body'.entries[i])]
          /\ (http_body'.ekind = "list" /\ http_body'.entries # << >>
              /\ ValidEntries(http_body') = http_body'.entries) =>
                ret' = "True" ]_vars

\* the legacy path alone: a response whose entries all carry a valid time
\* string and valid percentages is accepted
C25_LegacyShapeAccepted ==
    [][(op' = "fetch_schedule" /\ http_result' = "dict" /\ mode' # "demo"
        /\ http_body'.ekind = "list" /\ http_body'.entries # << >>
        /\ ValidEntries(http_body') = http_body'.entries) =>
          /\ ret' = "True"
          /\ Len(cached_schedule') = Len(http_body'.entries) ]_vars


\* C26: when update() returns, the LED state is the pair get_current_target()
\* yields for the cache, the mode and the clock of that moment, and update()
\* has changed neither the cached entries, the mode, the fetch time nor
\* anything else of the schedule cache.
C26_UpdateAppliesTarget ==
    [][op' = "update" =>
          /\ led' = get_current_target(cached_schedule, mode = "demo", now)
          /\ UNCHANGED <<cached_schedule, mode, last_fetch_time, utc_offset>>
          /\ UNCHANGED <<now, demo_schedule, last_retry_delays>> ]_vars

\* an update() on a scheduled cache has moved the LEDs to an interpolated
\* value, away from what they showed before
C26_Witness ==
    /\ op = "update"
    /\ cached_schedule # << >>
    /\ mode # "demo"
    /\ last_fetch_time > 0
    /\ Len(cached_schedule) = 2
    /\ cached_schedule[1].unix_time < now
    /\ now < cached_schedule[2].unix_time
    /\ led = LinearAt(cached_schedule[1], cached_schedule[2], now)
    /\ led # <<cached_schedule[1].warm, cached_schedule[1].cool>>
    /\ led # <<cached_schedule[2].warm, cached_schedule[2].cool>>

\* an update() in demo mode
C26_DemoReached == op = "update" /\ mode = "demo" /\ cached_schedule # << >> /\ led # NightLight


\* entry i is the first of several cached entries with its unix_time
FirstOfTies(i) ==
    /\ i < Len(cached_schedule)
    /\ cached_schedule[i + 1].unix_time = cached_schedule[i].unix_time
    /\ (i = 1 \/ cached_schedule[i - 1].unix_time < cached_schedule[i].unix_time)

\* C33: when several cached entries share a unix_time, the first of them in
\* cache order is authoritative: at that time the target is the first such
\* entry's values, and in the interval up to the next later entry the target
\* is interpolated from the first such entry.
C33_FirstOfTiesAuthoritative ==
    (op = "update" /\ ~is_demo_mode)
        => \A i \in DOMAIN cached_schedule :
              FirstOfTies(i) =>
                 LET tie == cached_schedule[i]
                     k == FirstAfter(cached_schedule, tie.unix_time, 1)
                 IN  /\ now = tie.unix_time => target = Values(tie)
                     /\ (k # 0 /\ tie.unix_time < now /\ now < cached_schedule[k].unix_time)
                           => target = LinearAt(tie, cached_schedule[k], now)

\* what the scan does with ties: the last of the tied entries is the one
\* evaluated at their time and interpolated from after it
C33_LastOfTiesUsed ==
    (op = "update" /\ ~is_demo_mode)
        => \A i \in DOMAIN cached_schedule :
              FirstOfTies(i) =>
                 LET k == FirstAfter(cached_schedule, cached_schedule[i].unix_time, 1)
                     last == cached_schedule[IF k = 0 THEN Len(cached_schedule) ELSE k - 1]
                 IN  /\ now = last.unix_time => target = Values(last)
                     /\ (k # 0 /\ last.unix_time < now /\ now < cached_schedule[k].unix_time)
                           => target = LinearAt(last, cached_schedule[k], now)

\* update() one second after the time two entries share
C33_AfterTieReached ==
    /\ op = "update" /\ ~is_demo_mode
    /\ \E i \in DOMAIN cached_schedule :
          FirstOfTies(i) /\ now = cached_schedule[i].unix_time + 1

\* C35: a fetch whose response has mode demo ignores the server's entries and
\* replaces the cache by one entry per configured waypoint with unix_time =
\* generation time + waypoint offset; each regeneration re-anchors the cycle,
\* so the target evaluated right after it is the first waypoint's values
\* whatever the cycle position was before.
C35_DemoReanchors ==
    [][(op' = "fetch_schedule" /\ ret' = "True" /\ mode' = "demo")
        => /\ Len(cached_schedule') = Len(demo_schedule)
           /\ \A i \in DOMAIN demo_schedule :
                 /\ cached_schedule'[i].unix_time = now' + demo_schedule[i][1]
                 /\ cached_schedule'[i].warm = Frac(demo_schedule[i][2], 100)
                 /\ cached_schedule'[i].cool = Frac(demo_schedule[i][3], 100)
                 /\ cached_schedule'[i].label = demo_schedule[i][4]
           /\ get_current_target(cached_schedule', TRUE, now')
                 = <<Frac(demo_schedule[1][2], 100), Frac(demo_schedule[1][3], 100)>>]_vars

\* a second demo fetch, one second into the cycle the first one anchored,
\* whose response carries server entries
C35_Witness ==
    /\ op = "fetch_schedule" /\ ret = "True" /\ is_demo_mode
    /\ fetches = 2 /\ now = 1
    /\ http_body.entries # << >>
    /\ cached_schedule[1].unix_time = 1
    /\ Len(cached_schedule) = Len(DEMO_SCHEDULE)

\* a fetch has just decoded a response that carries serverTime
FetchedServerTime == op' = "fetch_schedule" /\ http_body'.isdict
                     /\ http_body'.serverTime # NoServerTime

\* |serverTime - local time| at the end of that fetch
Drift == IF http_body'.serverTime >= now' THEN http_body'.serverTime - now'
         ELSE now' - http_body'.serverTime

\* C36: when a fetch response carries serverTime, a clock-drift warning is
\* printed iff |serverTime - local time| > 300 s (none at exactly 300 s or
\* below, in either direction), and the fetch never sets the system clock.
C36_DriftWarning ==
    [][FetchedServerTime
        => /\ ("Warning: Clock drift detected" \in printed')
                 <=> Drift > CLOCK_DRIFT_THRESHOLD_S
           /\ rtc_writes' = rtc_writes
           /\ now' = now + SumSeq(last_retry_delays')]_vars

\* the part that holds: a fetch leaves the clock alone (time only passes
\* while the request sleeps between attempts), and prints no drift warning
C36_FetchKeepsClock ==
    [][op' = "fetch_schedule"
        => /\ rtc_writes' = rtc_writes
           /\ now' = now + SumSeq(last_retry_delays')
           /\ "Warning: Clock drift detected" \notin printed']_vars

\* a fetch whose serverTime is 301 s ahead of the local clock, cached as usual
C36_DriftedFetchReached ==
    /\ op = "fetch_schedule" /\ ret = "True"
    /\ http_body.serverTime = now + CLOCK_DRIFT_THRESHOLD_S + 1
    /\ printed = {"Schedule fetched"}

\* a fetch whose serverTime is exactly 300 s ahead of the local clock
C36_ThresholdFetchReached ==
    /\ op = "fetch_schedule"
    /\ http_body.serverTime = now + CLOCK_DRIFT_THRESHOLD_S

\* needs_refresh() is called right after a fetch_schedule() that returned True
RefreshAskedAfterFetch == op = "fetch_schedule" /\ ret = "True" /\ op' = "needs_refresh"

\* C39: immediately after any fetch_schedule() call that returns True (server
\* schedule or demo generation), needs_refresh() returns False.
C39_FreshAfterFetch ==
    [][RefreshAskedAfterFetch => ret' = "False"]_vars

\* the part that holds: needs_refresh() is False right after a demo
\* generation, and after a fetch whose last entry is not more than
\* STALE_THRESHOLD in the past
C39_FreshUnlessStaleOnArrival ==
    [][RefreshAskedAfterFetch
        => (ret' = "False"
              <=> now <= cached_schedule[Len(cached_schedule)].unix_time + STALE_THRESHOLD)
           /\ (is_demo_mode => ret' = "False")]_vars

\* a fetch that has just returned True with every entry more than an hour old
C39_StaleOnArrivalReached ==
    /\ op = "fetch_schedule" /\ ret = "True" /\ ~is_demo_mode
    /\ last_fetch_time = now
    /\ now > cached_schedule[Len(cached_schedule)].unix_time + STALE_THRESHOLD

\* ========================================================================
\* Properties of NetworkManager's association and time synchronisation (checked under SpecNet)
\* ========================================================================
\* the step is a call of connect_wifi(), direct or from ensure_connected()
ConnectCalled == connect_calls' = connect_calls + 1

\* the step is a call of ensure_connected()
EnsureCalled ==
    /\ net_call.op = "idle"
    /\ net_calls' = net_calls + 1
    /\ \/ net_call'.via = "ensure_connected"
       \/ net_call'.op = "idle" /\ op' = "ensure_connected"

\* C21: connect_wifi called while the radio is associated returns True at
\* once, without a WLAN.connect() request and without a change of the
\* association; ensure_connected calls connect_wifi exactly when is_connected()
\* is false and is otherwise a no-op that returns True.
C21_ConnectIdempotent ==
    [][ /\ (ConnectCalled /\ associated) =>
              /\ net_call'.op = "idle"
              /\ ret' = "True"
              /\ now' = now
              /\ join_requests' = join_requests
              /\ UNCHANGED <<associated, joining>>
        /\ EnsureCalled =>
              IF is_connected
              THEN /\ op' = "ensure_connected"
                   /\ ret' = "True"
                   /\ UNCHANGED <<net_call, now, associated, joining, wlan_made,
                                  join_requests, connect_calls>>
              ELSE ConnectCalled ]_vars

\* a second connect_wifi() found the radio associated by the first
C21_Witness ==
    /\ op = "connect_wifi"
    /\ ret = "True"
    /\ net_call.op = "idle"
    /\ connect_calls = 2
    /\ join_requests = 1
    /\ associated

\* ensure_connected() returned without calling connect_wifi()
C21_EnsureNoOpReached ==
    /\ op = "ensure_connected"
    /\ ret = "True"
    /\ net_calls = 2
    /\ connect_calls = 1

\* ensure_connected() went into connect_wifi()
C21_EnsureConnectsReached ==
    /\ net_call.op = "connect_wifi"
    /\ net_call.via = "ensure_connected"


\* C22 (NetworkManager.connect_wifi): a call that has returned True left the
\* radio associated, a call that has returned False (timeout, or an error of
\* the radio caught inside) left is_connected() false, and no exception
\* leaves the call.
C22_ResultMatchesAssociation ==
    (op \in {"connect_wifi", "ensure_connected"} /\ net_call.op = "idle") =>
        /\ ret \in {"True", "False"}
        /\ ret = "True" => associated
        /\ ret = "False" => ~is_connected

\* connect_wifi() has polled until its timeout and returned False
C22_TimeoutReached ==
    /\ op = "connect_wifi"
    /\ ret = "False"
    /\ net_call.op = "idle"
    /\ joining
    /\ now > 0

\* C22: connect_wifi never raises: it returns True only if the interface is
\* associated when it returns, and after a timeout it returns False with the
\* interface not connected.  Stated for connect_wifi of main.py, whose
\* return is followed at once by the time sync of the startup block.
C22_ConnectWifiNeverRaises ==
    /\ ~Has("raise")
    /\ (InStartup /\ pc = "ntp") =>
          /\ phase_failed = "none" => wifi_connection
          /\ phase_failed = "wifi" => ~wifi_connection


\* the step is a turn of the server loop of sync_time() that got no answer
SyncServerFailed ==
    /\ net_call.op = "sync_time"
    /\ net_call' # net_call
    /\ ~(net_call'.op = "idle" /\ ret' = "True")

\* the step is a turn of the server loop that got an answer: sync_time()
\* returns True
SyncServerAnswered ==
    net_call.op = "sync_time" /\ net_call'.op = "idle" /\ ret' = "True"

\* C23: a sync_time() whose servers all fail returns False and changes
\* neither the clock setting nor _time_synced; is_time_synced() is True
\* exactly when some sync_time() since boot has returned True, and once True
\* it stays True.
C23_SyncFailureKeepsState ==
    [][ /\ SyncServerFailed =>
              /\ UNCHANGED <<rtc_writes, nm_time_synced>>
              /\ now' = now + NtpSocketTimeout
              /\ net_call.server = NtpServerCount =>
                    (net_call'.op = "idle" /\ op' = "sync_time" /\ ret' = "False")
              /\ net_call.server < NtpServerCount => net_call'.op = "sync_time"
        /\ nm_time_synced' <=> (sync_succeeded \/ SyncServerAnswered)
        /\ nm_time_synced => nm_time_synced' ]_vars

\* a sync_time() failed on every server after an earlier one had succeeded
C23_Witness ==
    /\ op = "sync_time"
    /\ ret = "False"
    /\ net_call.op = "idle"
    /\ nm_time_synced
    /\ rtc_writes = 1

\* a sync_time() failed on every server before any had succeeded
C23_NeverSyncedReached ==
    /\ op = "sync_time"
    /\ ret = "False"
    /\ net_call.op = "idle"
    /\ ~nm_time_synced
    /\ now = NtpServerCount * NtpSocketTimeout


\* a NetworkManager call is in progress
InCall == net_call.op # "idle"

\* the last thing that happened is the return of a NetworkManager call with a
\* definite result
Returned ==
    /\ net_call.op = "idle"
    /\ \/ op \in {"connect_wifi", "ensure_connected", "sync_time", "http_post"}
          /\ ret \in {"True", "False"}
       \/ op = "http_get" /\ ret \in {"dict", "None"}

\* C24: every call of connect_wifi, sync_time, http_get and http_post that has
\* been started returns a definite result, whatever the radio and the servers
\* do, as long as the program keeps running and the sleeps advance the clock.
C24_CallsReturn == InCall ~> Returned

\* connect_wifi(timeout=1) has polled the radio for two seconds and given up
C24_Witness ==
    /\ op = "connect_wifi"
    /\ ret = "False"
    /\ net_call.op = "idle"
    /\ net_calls = 1
    /\ now = 2

\* sync_time() has tried every server in vain
C24_SyncExhaustedReached ==
    op = "sync_time" /\ ret = "False" /\ net_call.op = "idle" /\ net_calls = 1

\* http_get() has used up its attempts
C24_GetExhaustedReached ==
    /\ op = "http_get"
    /\ ret = "None"
    /\ net_call.op = "idle"
    /\ Len(last_retry_delays) = HTTP_MAX_RETRIES - 1


\* the step is one _ntp_request() of a running sync_time()
SyncStep == net_call.op = "sync_time" /\ net_call' # net_call

\* C32: one sync_time() asks the configured servers in list order, each at
\* most once, contacts no server after one has answered, and when a server
\* answers sets the clock once, to that server's transmit timestamp minus
\* NTP_DELTA (2,208,988,800 s = 25567 days), and returns True.
C32_FirstAnswerSetsClock ==
    [][SyncStep =>
          LET e == Last(ntp_log')
          IN  /\ ntp_log' = Append(ntp_log, e)
              /\ e.server = Len(ntp_log) + 1
              /\ e.server <= NtpServerCount
              /\ \A i \in DOMAIN ntp_log : ~ntp_log[i].answered
              /\ IF e.answered
                 THEN /\ net_call'.op = "idle" /\ op' = "sync_time" /\ ret' = "True"
                      /\ rtc_writes' = rtc_writes + 1
                      /\ now' - e.ts[2] = (e.ts[1] - NTP_DELTA_DAYS) * SecondsPerDay
                 ELSE /\ rtc_writes' = rtc_writes
                      /\ net_call'.op = "idle" <=> e.server = NtpServerCount ]_vars

\* the second server answered after the first had not: the third was not
\* asked and the clock shows the second server's time
C32_Witness ==
    /\ op = "sync_time"
    /\ ret = "True"
    /\ net_call.op = "idle"
    /\ Len(ntp_log) = 2
    /\ ntp_log[2].ts = <<NTP_DELTA_DAYS + 1000, 90>>
    /\ now = 1000 * SecondsPerDay + 90
    /\ rtc_writes = 1

\* a second successful sync_time() has set the clock a second time
C32_SecondSyncReached == op = "sync_time" /\ ret = "True" /\ rtc_writes = 2 /\ Len(ntp_log) = 1

\* ========================================================================
\* Properties of TransitionEngine.get_current_target (checked under SpecEngine)
\* ========================================================================
\* offset of cached entry i from the first entry
Offset(i) == cached_schedule[i].unix_time - cached_schedule[1].unix_time

\* position of the clock within the demo cycle
CycleTime == (now - cached_schedule[1].unix_time) % get_demo_cycle_duration

\* the linear formula between two (warm, cool) pairs at num / den of the way
LinearBy(a, b, num, den) ==
    <<FAdd(a[1], FMul(FSub(b[1], a[1]), Frac(num, den))),
      FAdd(a[2], FMul(FSub(b[2], a[2]), Frac(num, den)))>>

BetweenPairs(x, a, b) == Between(x[1], a[1], b[1]) /\ Between(x[2], a[2], b[2])

\* no entry's offset is greater than the cycle time
Wraps == \A i \in DOMAIN cached_schedule : Offset(i) <= CycleTime

\* C34: in demo mode the target is evaluated at cycle_time = (now - first
\* entry's unix_time) mod cycle_duration between the entries whose offsets
\* surround cycle_time; when no offset is greater than cycle_time the pair is
\* (last entry, first entry) with the first entry's offset raised by the
\* cycle duration; the result lies between the two entries' values.
C34_DemoBracketing ==
    (op = "update" /\ is_demo_mode /\ cached_schedule # << >>)
        => LET n == Len(cached_schedule)
           IN  /\ \A k \in 2..n :
                     (Offset(k) > CycleTime /\ \A j \in 1..(k - 1) : Offset(j) <= CycleTime)
                        => LET prev == cached_schedule[k - 1]
                               next == cached_schedule[k]
                           IN  /\ target = LinearBy(Values(prev), Values(next),
                                                     CycleTime - Offset(k - 1),
                                                     Offset(k) - Offset(k - 1))
                               /\ BetweenPairs(target, Values(prev), Values(next))
               /\ Wraps
                     => LET prev == cached_schedule[n]
                            next == cached_schedule[1]
                        IN  /\ target = LinearBy(Values(prev), Values(next),
                                                  CycleTime - Offset(n),
                                                  get_demo_cycle_duration - Offset(n))
                            /\ BetweenPairs(target, Values(prev), Values(next))

\* update() in the wrapped part of the cycle, strictly between the last and
\* the first waypoint, with the clock before the anchor
C34_Witness ==
    /\ op = "update" /\ is_demo_mode /\ cached_schedule # << >>
    /\ Wraps /\ CycleTime > Offset(Len(cached_schedule))
    /\ now < cached_schedule[1].unix_time
    /\ target # Values(cached_schedule[1])
    /\ target # Values(cached_schedule[Len(cached_schedule)])

\* x is no later on the way from a to b than y is
NoLaterOnWay(x, y, a, b) ==
    /\ FLe(a, b) => FLe(x, y)
    /\ FLe(b, a) => FLe(y, x)

\* C38: interpolation is monotonic: for a non-demo cache, adjacent entries
\* prev and next and times t1 <= t2 within [prev.unix_time, next.unix_time),
\* each channel's target at t2 is at least as close to next's value as at t1:
\* non-decreasing in time when next >= prev, non-increasing when next <= prev.
C38_Monotonic ==
    (op = "update" /\ ~is_demo_mode)
        => \A i \in 1..(Len(cached_schedule) - 1) :
              LET prev == cached_schedule[i]
                  next == cached_schedule[i + 1]
              IN  (prev.unix_time <= now /\ now < next.unix_time)
                     => \A t2 \in EngineTimes :
                           (now <= t2 /\ t2 < next.unix_time)
                              => LET later == get_current_target(cached_schedule, FALSE, t2)
                                 IN  /\ NoLaterOnWay(target[1], later[1], prev.warm, next.warm)
                                     /\ NoLaterOnWay(target[2], later[2], prev.cool, next.cool)

\* update() ten seconds into the interval after the anchor entry, where warm
\* falls and cool rises, with later times of the interval still to come
C38_Witness ==
    /\ op = "update" /\ ~is_demo_mode
    /\ now = EngineAnchor + 10
    /\ cached_schedule[2].unix_time = EngineAnchor
    /\ target = <<Frac(11, 12), Frac(1, 12)>>
    /\ get_current_target(cached_schedule, FALSE, now + 20) = <<Frac(3, 4), Frac(1, 4)>>

\* C40: with an unchanged demo cache the demo target is periodic in the cycle
\* duration: for every time now, before or after the cycle anchor,
\* get_current_target() at now and at now + cycle_duration return the same
\* (warm, cool) pair.
C40_DemoPeriodic ==
    (op = "update" /\ is_demo_mode)
        => /\ get_current_target(cached_schedule, TRUE, now + get_demo_cycle_duration) = target
           /\ get_current_target(cached_schedule, TRUE, now - get_demo_cycle_duration) = target

\* update() nine seconds before the anchor of the template's cycle: the
\* target is the one of six seconds after it, the "sunrise" waypoint
C40_Witness ==
    /\ op = "update" /\ is_demo_mode
    /\ demo_schedule = DEMO_SCHEDULE
    /\ now = cached_schedule[1].unix_time - 9
    /\ target = <<FOne, Frac(4, 5)>>

\* update() after the anchor, in the wrapped part of the two-waypoint cycle
C40_AfterAnchorReached ==
    /\ op = "update" /\ is_demo_mode
    /\ demo_schedule = DemoScheduleShort
    /\ now = cached_schedule[1].unix_time + 25
    /\ target = <<Frac(3, 10), Frac(1, 4)>>

\* ========================================================================
\* Properties of the LEDDriver (checked under SpecLed)
\* ========================================================================
InUnitPair(p) == InUnit(p[1]) /\ InUnit(p[2])

\* C27: for warm and cool in [0, 1], get_brightness() after
\* set_brightness(warm, cool) returns exactly (warm, cool); night_light(b),
\* b a brightness in [0, 1], leaves the state at (b, 0) and off() leaves it at
\* (0, 0).  get_brightness() always returns the state as it is.
C27_BrightnessRoundTrip ==
    [][ /\ (op' = "get_brightness" /\ op = "set_brightness" /\ InUnitPair(led_args))
            => led_read' = led_args
        /\ (op' = "get_brightness" /\ led_calls' # led_calls) => led_read' = led /\ led' = led
        /\ (op' = "night_light" /\ InUnitPair(led_args'))
            => led' = <<led_args'[1], FZero>>
        /\ op' = "off" => led' = <<FZero, FZero>> ]_vars

\* a pair strictly inside the unit square, different in its two channels, has
\* been set and read back
C27_Witness ==
    /\ op = "get_brightness"
    /\ led_args = <<Frac(1, 4), Frac(1, 2)>>
    /\ led_read = led_args
    /\ led_calls = 2

\* night_light(1/2) and off() have acted on a lit lamp
C27_NightLightReached == op = "night_light" /\ led = <<Frac(1, 2), FZero>> /\ led_calls = 2
C27_OffReached == op = "off" /\ led = <<FZero, FZero>> /\ led_calls = 2 /\ led_args = <<FZero, FZero>>

====
